---- MODULE Spec2Model ----
(***************************************************************************)
(* A model of the shelly-git-ops sync engine (package gitops, storage and  *)
(* shelly): the parallel pull of every registered device, the manifest     *)
(* (device registry) the pull tasks share, and the per-device push.        *)
(*                                                                         *)
(* Device ids are 1..NumDevices.  A device folder name is, in the code,    *)
(* "<sanitized name>-<device id>"; the id part never changes for a device, *)
(* so the model keeps the sanitized-name part only and indexes the file    *)
(* system by device.                                                       *)
(***************************************************************************)
EXTENDS Integers, Sequences, FiniteSets, TLC

\* ------------------------------------------------------------------ bounds

\* Number of devices in manifest.yaml.
NumDevices == 2

\* Largest id the device assigns to a record it creates.
MaxId == 3

\* Number of calls that fail during the runs looked at.
MaxFaults == 1

\* Number of calls that may fail in a run in which call after call fails.
MaxFailures == 4

\* Longest component type, in characters.
MaxTypeLen == 3

\* Longest component id, in digits.
MaxIdLen == 2

\* Number of pushes run one after the other on a device.
MaxPushes == 2

Devices == 1..NumDevices

\* ------------------------------------------------------------- name domain

\* Device names as reported by Shelly.GetDeviceInfo ("" = no name set).
Names == {"", "kitchen", "Kitchen", "hall"}

\* Name every device carries in the manifest before the run.
RegistryName == "kitchen"

\* strings.ToLower, then ReplaceAll " "->"-" and "_"->"-".
Sanitize(n) == IF n = "Kitchen" THEN "kitchen" ELSE n

\* newFolderName := fmt.Sprintf("%s-%s", sanitizedName, device.DeviceID)
NewFolderName(n) == Sanitize(n)

\* ------------------------------------------------------------------- state

VARIABLES
  dirty,         \* the working tree has uncommitted changes (Repository.HasChanges)
  opState,       \* PullFromDevices: "init", "running", "returned"; PushToDevices: "pushing"
  retErr,        \* error returned by PullFromDevices ("nil" = no error)
  retResults,    \* TRUE when PullFromDevices returned the result list, FALSE for nil
  manifest,      \* sm.manifest.Devices, the in-memory registry (a sequence)
  manifestFile,  \* the content of manifest.yaml on disk
  pc,            \* position of each device task inside pullDeviceConfig
  dev,           \* each task's local copy \"device\"
  idx,           \* each task's loop index inside AddDevice / UpdateLastSync
  snap,          \* each task's marshalled manifest inside Save
  results,       \* the shared results slice
  groupErr,      \* errgroup: the first non-nil error a task returned
  ctxCancelled,  \* the context handed to the tasks is cancelled
  extCancel,     \* the caller cancelled the parent context
  dirs,          \* per device: the device folders that exist on disk
  wrote,         \* per device: <<folder, file>> written during this run
  remoteCalls,   \* per device: RPC methods issued during this run
  allOk,         \* per device: every call the task made so far succeeded
  deviceFilter,  \* PushToDevices' deviceFilter argument (the set of its entries)
  devicesToPush, \* PushToDevices: the devices selected by the filter, in order
  values,        \* the values file as LoadValuesFile returns it: <<path, value>> pairs
  allDevices,    \* PushToDevices: the allDevices map, device id -> DeviceContext
  templateContext, \* per device: the template context its push task built
  \* --- one device task seen alone: its folder, its remote device, its loops
  local,         \* the device folder: [script, schedule, webhook, kvs]
  remote,        \* the device: [script, schedule, webhook, kvs]
  local0,        \* the device folder when the operation started
  remote0,       \* the device when the first operation started
  faultLimit,    \* how many calls may fail in the run
  hist,          \* the device's state at the start and after each finished push
  ppc,           \* position of the task inside pushDeviceConfig / pullDeviceConfig
  dryRun,        \* PushToDevices' dryRun argument
  listed,        \* the remote listing the current resource class is compared with
  todo,          \* ids (keys) of the local records the current loop has yet to visit
  dels,          \* ids (keys) of the listing the delete loop has yet to visit
  calls,         \* the RPCs issued during the current operation, in order
  created,       \* [class, localId, id]: records created remotely by the current push
  faults,        \* the calls (remote or local) that failed so far, in order
  stderr,        \* the failures a diagnostic was written for, in order
  pres,          \* the SyncResult of the device's last push
  \* --- one call of the RPC client seen alone
  scriptCode,    \* Client.GetScriptCode: its locals, its requests and the replies
  components,    \* Client.GetComponents: its locals, its requests and the replies
  \* --- the registry seen alone
  lastCall,      \* the last call of a Manifest method: its name, argument, the list before
  \* --- one component config seen alone
  componentConfig \* its key on the device, its file in the folder, its SetConfig call

pullVars == <<dirty, opState, retErr, retResults, manifest, manifestFile, pc, dev,
              idx, snap, results, groupErr, ctxCancelled, extCancel, dirs, wrote,
              remoteCalls, allOk, deviceFilter, devicesToPush, values, allDevices,
              templateContext>>

devVars == <<local, remote, local0, remote0, faultLimit, hist, ppc, dryRun, listed, todo, dels, calls,
             created, faults, stderr, pres>>

clientVars == <<scriptCode, components, lastCall, componentConfig>>

vars == <<pullVars, devVars, clientVars>>

\* ----------------------------------------------------------------- manifest

\* storage.Device (identity fields that the sync engine reads or writes).
Device(id, name, folder, lastSync) ==
  [DeviceID |-> id, Name |-> name, Folder |-> folder, LastSync |-> lastSync]

\* The manifest every run starts from: one entry per device, never synced.
InitialManifest ==
  [i \in Devices |-> Device(i, RegistryName, NewFolderName(RegistryName), 0)]

\* Loop of AddDevice / UpdateLastSync: first index whose DeviceID matches, 0 if none.
FindDevice(m, id) ==
  IF \E i \in 1..Len(m) : m[i].DeviceID = id
    THEN CHOOSE i \in 1..Len(m) :
           /\ m[i].DeviceID = id
           /\ \A j \in 1..(i - 1) : m[j].DeviceID # id
    ELSE 0

\* An AddDevice that appends without looking the id up.
AddDeviceAppends(m, device) == Append(m, device)

\* Manifest.AddDevice: replace the entry in place, or append.
AddDevice(m, device) ==
  LET i == FindDevice(m, device.DeviceID) IN
    IF i # 0 THEN [m EXCEPT ![i] = device] ELSE Append(m, device)

\* Manifest.RemoveDevice: the list without the first entry of that id.
RemoveDevice(m, deviceID) ==
  LET i == FindDevice(m, deviceID) IN
    IF i # 0 THEN SubSeq(m, 1, i - 1) \o SubSeq(m, i + 1, Len(m)) ELSE m

\* Manifest.UpdateLastSync.
UpdateLastSync(m, id, syncTime) ==
  LET i == FindDevice(m, id) IN
    IF i # 0 THEN [m EXCEPT ![i].LastSync = syncTime] ELSE m

\* time.Now() of the run (the manifest starts with LastSync = 0).
Now == 1

\* ------------------------------------------------------------------ results

\* SyncResult zero value, as make([]SyncResult, n) fills the slice.
ZeroResult == [DeviceID |-> 0, Success |-> FALSE, Error |-> "nil"]

\* A result that starts out as a success.
NewResultSucceeded(id) == [DeviceID |-> id, Success |-> TRUE, Error |-> "nil"]

\* result := SyncResult{DeviceID: device.DeviceID, Success: false}
NewResult(id) == [DeviceID |-> id, Success |-> FALSE, Error |-> "nil"]

\* ------------------------------------------------- one device: the stores

\* Keys of the device's KVS and of kvs/data.json.
Keys == {"api_endpoint", "update_interval"}

\* A key with no entry.
Absent == "<absent>"

\* JSON values of a KVS entry.  "num:42" stands for the number 42 (a non-string
\* value); the others are strings.
LocalValues == {"300", "600", "{{ .api.endpoint }}", "{{ .missing }}", "{{ open", "num:42"}

RemoteValues == {"600", "https://api.example.com", "num:42"}

\* strValue, ok := value.(string)
IsString(v) == v # "num:42"

\* Template strings a KVS entry may hold: field chains, the index builtin on the
\* root map and on the devices map, and one action that does not parse.
TemplateTexts ==
  { "{{ .api.endpoint }}", "{{ .missing }}", "{{ .api.missing }}",
    "{{ .device.name }}", "{{ .device.room }}",
    "{{ index . \"site\" }}",
    "{{ index (index .devices \"Shelly-1\") \"name\" }}",
    "{{ index (index .devices \"Shelly-1\") \"room\" }}",
    "{{ index (index .devices \"Shelly-9\") \"name\" }}",
    "{{ if }}" }

\* IsTemplated: the value matches \{\{.*?\}\}.
IsTemplated(v) == v \in TemplateTexts

\* A values file as a set of <<path, value>> entries: the path of keys from the
\* root map to a string value.
DefaultValues == {<<<<"api", "endpoint">>, "https://api.example.com">>}

\* The values files LoadValuesFile may return: none given (empty Values), the
\* default one, one that also sets site, and one whose device key is shadowed.
ValuesFiles ==
  { {}, DefaultValues,
    DefaultValues \cup {<<<<"site">>, "home">>},
    DefaultValues \cup {<<<<"device">>, "mine">>} }

EmptyKVS == [k \in Keys |-> Absent]

KVSKeys(m) == {k \in Keys : m[k] # Absent}

\* Resource classes reconciled by id.
Classes == {"script", "schedule", "webhook"}

EmptyStore ==
  [config |-> {}, script |-> {}, schedule |-> {}, webhook |-> {}, kvs |-> EmptyKVS]

\* One RPC: the resource class, the method, the id or key it was issued for (for a
\* create, the id of the local record; "" if the call names none), and whether it
\* succeeded.
Call(class, op, id, ok) == [class |-> class, op |-> op, id |-> id, ok |-> ok]

\* The named call is among the failed ones.
Failed(name) == \E i \in 1..Len(faults) : faults[i] = name

\* The failures the call just made added to the list.
NewFaults == SubSeq(faults', Len(faults) + 1, Len(faults'))

\* Failures that end the task: they are returned in result.Error.
Fatal(name) ==
  name \in {"Shelly.GetConfig", "SaveComponentConfig", "DeviceExists", "ListComponentConfigs"}

\* Failures the operation ("pull" or "push") passes over without writing to stderr.
\* pullDeviceConfig: the script listing, GetScriptCode, SaveScript, LoadKVS.
\* pushDeviceConfig: the local listings and LoadKVS, GetKVS, and DeleteKVS (its
\* text is put in result.Message, which the final message replaces).
Silent(operation, name) ==
  IF operation = "pull"
    THEN name \in {"Script.List", "Script.GetCode", "Save:script", "LoadKVS"}
    ELSE name \in {"GetKVS", "KVS.Delete", "LoadKVS", "ListLocal:script",
                   "ListLocal:schedule", "ListLocal:webhook"}

\* The diagnostics written to stderr for these failures.
Diagnostics(operation, failures) ==
  LET Written(name) == ~Fatal(name) /\ ~Silent(operation, name)
  IN SelectSeq(failures, Written)

NoResult == [Success |-> FALSE, Error |-> "nil", Message |-> ""]

\* GetScriptCode before it is called.  A script's code and a reply's data are
\* sequences of bytes.
NoScriptCode ==
  [pc |-> "idle", fullCode |-> << >>, offset |-> 0, left |-> 0, requests |-> << >>,
   replies |-> << >>, beyond |-> 0, err |-> "nil"]

\* GetComponents before it is called.
NoComponents ==
  [pc |-> "idle", remote |-> [kind |-> "none", n |-> 0, page |-> 0],
   allComponents |-> << >>, offset |-> 0, requests |-> << >>, replies |-> << >>,
   beyond |-> 0, err |-> "nil"]

\* No Manifest method was called yet.
NoCall == [op |-> "none", id |-> 0, before |-> << >>]

\* No component config is looked at alone.
NoComponentConfig ==
  [pc |-> "idle", componentKey |-> << >>, filename |-> << >>, method |-> << >>,
   params |-> << >>]

\* No call of the client or of the registry is looked at alone.
ClientIdle ==
  /\ scriptCode = NoScriptCode
  /\ components = NoComponents
  /\ lastCall = NoCall
  /\ componentConfig = NoComponentConfig

\* The single-device variables while only the parallel pull is looked at.
DevIdle ==
  /\ ClientIdle
  /\ local = EmptyStore
  /\ remote = EmptyStore
  /\ local0 = EmptyStore
  /\ remote0 = EmptyStore
  /\ faultLimit = MaxFaults
  /\ hist = << >>
  /\ ppc = "off"
  /\ dryRun = FALSE
  /\ listed = {}
  /\ todo = {}
  /\ dels = {}
  /\ calls = << >>
  /\ created = {}
  /\ faults = << >>
  /\ stderr = << >>
  /\ pres = NoResult

\* The parallel-pull variables while one device task is looked at alone, but for
\* the values file.
TaskIdle ==
  /\ ClientIdle
  /\ dirty = FALSE
  /\ opState = "off"
  /\ retErr = "nil"
  /\ retResults = FALSE
  /\ manifest = InitialManifest
  /\ manifestFile = InitialManifest
  /\ pc = [d \in Devices |-> "idle"]
  /\ dev = [d \in Devices |-> InitialManifest[d]]
  /\ idx = [d \in Devices |-> 0]
  /\ snap = [d \in Devices |-> << >>]
  /\ results = << >>
  /\ groupErr = "nil"
  /\ ctxCancelled = FALSE
  /\ extCancel = FALSE
  /\ dirs = [d \in Devices |-> {NewFolderName(RegistryName)}]
  /\ wrote = [d \in Devices |-> {}]
  /\ remoteCalls = [d \in Devices |-> {}]
  /\ allOk = [d \in Devices |-> TRUE]
  /\ deviceFilter = {}
  /\ devicesToPush = << >>
  /\ allDevices = << >>
  /\ templateContext = [d \in Devices |-> {}]

\* The same with the default values file.
PullIdle == TaskIdle /\ values = DefaultValues

\* ---------------------------------------------------------------------- Init

PullInit ==
  /\ dirty \in BOOLEAN
  /\ opState = "init"
  /\ retErr = "nil"
  /\ retResults = FALSE
  /\ manifest = InitialManifest
  /\ manifestFile = InitialManifest
  /\ pc = [d \in Devices |-> "idle"]
  /\ dev = [d \in Devices |-> InitialManifest[d]]
  /\ idx = [d \in Devices |-> 0]
  /\ snap = [d \in Devices |-> << >>]
  /\ results = << >>
  /\ groupErr = "nil"
  /\ ctxCancelled = FALSE
  /\ extCancel = FALSE
  /\ dirs \in [Devices -> {{}, {NewFolderName(RegistryName)}}]
  /\ wrote = [d \in Devices |-> {}]
  /\ remoteCalls = [d \in Devices |-> {}]
  /\ allOk = [d \in Devices |-> TRUE]
  /\ deviceFilter = {}
  /\ devicesToPush = << >>
  /\ values = DefaultValues
  /\ allDevices = << >>
  /\ templateContext = [d \in Devices |-> {}]
  /\ DevIdle

\* ------------------------------------------------------- pull: orchestrator

Goto(d, label) == pc' = [pc EXCEPT ![d] = label]

\* Client.Call: the request carries ctx, so it fails once ctx is cancelled.
CallSucceeds(reply) == reply /\ ~ctxCancelled

\* A pre-flight that lets a dirty working tree through.
PullAbortsOnStatusErrorOnly(statusErr, hasChanges) == statusErr

\* PullFromDevices pre-flight: HasChanges returned an error, or reported changes.
PullAborts(statusErr, hasChanges) == statusErr \/ hasChanges

\* A closure that hands the device's error to the errgroup.
TaskErrorPropagated(res) == res.Error

\* What the closure handed to g.Go returns: always nil.
TaskError(res) == "nil"

\* pullDeviceConfig returns res; the closure stores it in its slot and returns
\* TaskError(res) to the errgroup, which keeps the first non-nil error and cancels
\* the group's context on it.  A task writes no other slot, and nothing reads a
\* slot before g.Wait returns.
Finish(d, res) ==
  /\ results' = [results EXCEPT ![d] = res]
  /\ LET err == TaskError(res) IN
       IF err # "nil" /\ groupErr = "nil"
         THEN groupErr' = err /\ ctxCancelled' = TRUE
         ELSE UNCHANGED <<groupErr, ctxCancelled>>
  /\ Goto(d, "done")

\* A task stops with an error: result.Error = ...; return result.
Fail(d, msg) ==
  /\ allOk' = [allOk EXCEPT ![d] = FALSE]
  /\ Finish(d, [NewResult(dev[d].DeviceID) EXCEPT !.Error = msg])

\* PullFromDevices up to the end of the spawn loop.
PullStart ==
  /\ opState = "init"
  /\ \E statusErr \in BOOLEAN :
       IF PullAborts(statusErr, dirty)
         THEN /\ opState' = "returned"
              /\ retErr' = IF statusErr THEN "failed to check repository status"
                                        ELSE "cannot pull: uncommitted changes"
              /\ UNCHANGED <<pc, dev, results>>
         ELSE /\ opState' = "running"
              /\ results' = [i \in 1..Len(manifest) |-> ZeroResult]
              /\ pc' = [d \in Devices |-> "GetDeviceInfo"]
              /\ dev' = [d \in Devices |-> manifest[d]]
              /\ UNCHANGED retErr
  /\ UNCHANGED <<deviceFilter, devicesToPush, values, allDevices, templateContext>>
  /\ UNCHANGED <<dirty, retResults, manifest, manifestFile, idx, snap, groupErr,
                 ctxCancelled, extCancel, dirs, wrote, remoteCalls, allOk>>
  /\ UNCHANGED <<devVars, clientVars>>

\* g.Wait() and the return of PullFromDevices.
PullWait ==
  /\ opState = "running"
  /\ \A d \in Devices : pc[d] = "done"
  /\ opState' = "returned"
  /\ retErr' = groupErr
  /\ retResults' = TRUE
  /\ ctxCancelled' = TRUE
  /\ UNCHANGED <<deviceFilter, devicesToPush, values, allDevices, templateContext>>
  /\ UNCHANGED <<dirty, manifest, manifestFile, pc, dev, idx, snap, results, groupErr,
                 extCancel, dirs, wrote, remoteCalls, allOk>>
  /\ UNCHANGED <<devVars, clientVars>>

\* -------------------------------------------------- pull: pullDeviceConfig

\* deviceName: the remote name, or the manifest name when the remote one is empty.
DeviceName(device, infoName) == IF infoName = "" THEN device.Name ELSE infoName

\* if deviceName != device.Name && deviceName != ""
NameChanged(device, infoName) ==
  DeviceName(device, infoName) # device.Name /\ DeviceName(device, infoName) # ""

\* A storage that reports every folder as existing.
DeviceExistsAlways(d, folder) == TRUE

\* DeviceStorage.DeviceExists
DeviceExists(d, folder) == folder \in dirs[d]

\* GetDeviceInfo, the name check and, when the folder name changes too, os.Rename.
PullGetDeviceInfo(d) ==
  /\ pc[d] = "GetDeviceInfo"
  /\ remoteCalls' = [remoteCalls EXCEPT ![d] = @ \cup {"Shelly.GetDeviceInfo"}]
  /\ \E reply \in BOOLEAN, infoName \in Names, renameOk \in BOOLEAN :
       LET deviceName == DeviceName(dev[d], infoName)
           newFolderName == NewFolderName(deviceName)
           renamed == [dev[d] EXCEPT !.Name = deviceName, !.Folder = newFolderName]
           moves == dev[d].Folder # newFolderName /\ DeviceExists(d, dev[d].Folder)
       IN IF ~CallSucceeds(reply)
            THEN /\ infoName = "" /\ renameOk
                 /\ Fail(d, "failed to get device info")
                 /\ UNCHANGED <<dev, dirs>>
            ELSE IF ~NameChanged(dev[d], infoName)
              THEN /\ renameOk
                   /\ Goto(d, "CreateFolder")
                   /\ UNCHANGED <<dev, dirs, allOk, results, groupErr, ctxCancelled>>
              ELSE IF moves /\ ~renameOk
                THEN /\ Fail(d, "failed to rename device folder")
                     /\ UNCHANGED <<dev, dirs>>
                ELSE /\ (~moves => renameOk)
                     /\ dirs' = [dirs EXCEPT ![d] =
                           IF moves THEN (@ \ {dev[d].Folder}) \cup {newFolderName}
                                    ELSE @]
                     /\ dev' = [dev EXCEPT ![d] = renamed]
                     /\ Goto(d, "AddDevice")
                     /\ UNCHANGED <<allOk, results, groupErr, ctxCancelled>>
  /\ UNCHANGED <<deviceFilter, devicesToPush, values, allDevices, templateContext>>
  /\ UNCHANGED <<dirty, opState, retErr, retResults, manifest, manifestFile, idx,
                 snap, extCancel, wrote>>
  /\ UNCHANGED <<devVars, clientVars>>

\* sm.manifest.AddDevice(device): the loop that looks the device id up.
PullAddDeviceScan(d) ==
  /\ pc[d] = "AddDevice"
  /\ idx' = [idx EXCEPT ![d] = FindDevice(manifest, dev[d].DeviceID)]
  /\ Goto(d, "AddDeviceWrite")
  /\ UNCHANGED <<deviceFilter, devicesToPush, values, allDevices, templateContext>>
  /\ UNCHANGED <<dirty, opState, retErr, retResults, manifest, manifestFile, dev,
                 snap, results, groupErr, ctxCancelled, extCancel, dirs, wrote,
                 remoteCalls, allOk>>
  /\ UNCHANGED <<devVars, clientVars>>

\* sm.manifest.AddDevice(device): m.Devices[i] = device, or the append.
PullAddDeviceWrite(d) ==
  /\ pc[d] = "AddDeviceWrite"
  /\ manifest' = IF idx[d] # 0 THEN [manifest EXCEPT ![idx[d]] = dev[d]]
                               ELSE Append(manifest, dev[d])
  /\ idx' = [idx EXCEPT ![d] = 0]
  /\ Goto(d, "Save")
  /\ UNCHANGED <<deviceFilter, devicesToPush, values, allDevices, templateContext>>
  /\ UNCHANGED <<dirty, opState, retErr, retResults, manifestFile, dev, snap,
                 results, groupErr, ctxCancelled, extCancel, dirs, wrote,
                 remoteCalls, allOk>>
  /\ UNCHANGED <<devVars, clientVars>>

\* sm.manifest.Save(): yaml.Marshal(m) reads the device list.
PullSaveMarshal(d) ==
  /\ pc[d] = "Save"
  /\ snap' = [snap EXCEPT ![d] = manifest]
  /\ Goto(d, "SaveWrite")
  /\ UNCHANGED <<deviceFilter, devicesToPush, values, allDevices, templateContext>>
  /\ UNCHANGED <<dirty, opState, retErr, retResults, manifest, manifestFile, dev,
                 idx, results, groupErr, ctxCancelled, extCancel, dirs, wrote,
                 remoteCalls, allOk>>
  /\ UNCHANGED <<devVars, clientVars>>

\* The registry file, as an entry of a task's written files.
RegistryFile == <<".", "manifest.yaml">>

\* A pull that goes on to the device files without saving the registry.
PullSaveSkipped(d) ==
  /\ pc[d] = "SaveWrite"
  /\ snap' = [snap EXCEPT ![d] = << >>]
  /\ Goto(d, "CreateFolder")
  /\ UNCHANGED <<deviceFilter, devicesToPush, values, allDevices, templateContext>>
  /\ UNCHANGED <<dirty, opState, retErr, retResults, manifest, manifestFile, dev, idx,
                 extCancel, dirs, wrote, remoteCalls, allOk, results, groupErr,
                 ctxCancelled>>
  /\ UNCHANGED <<devVars, clientVars>>

\* sm.manifest.Save(): os.WriteFile(m.filePath, data, 0644).
PullSaveWrite(d) ==
  /\ pc[d] = "SaveWrite"
  /\ snap' = [snap EXCEPT ![d] = << >>]
  /\ \E writeOk \in BOOLEAN :
       IF writeOk
         THEN /\ manifestFile' = snap[d]
              /\ wrote' = [wrote EXCEPT ![d] = @ \cup {RegistryFile}]
              /\ Goto(d, "CreateFolder")
              /\ UNCHANGED <<allOk, results, groupErr, ctxCancelled>>
         ELSE /\ Fail(d, "failed to update manifest")
              /\ UNCHANGED <<manifestFile, wrote>>
  /\ UNCHANGED <<deviceFilter, devicesToPush, values, allDevices, templateContext>>
  /\ UNCHANGED <<dirty, opState, retErr, retResults, manifest, dev, idx, extCancel,
                 dirs, remoteCalls>>
  /\ UNCHANGED <<devVars, clientVars>>

\* The fatal steps between the rename and the resource classes, in code order.
FatalStepError(i) ==
  <<"failed to create device folder", "failed to save metadata",
    "failed to get shelly config", "failed to parse shelly config",
    "failed to save config">>[i]

\* Files written, or being written, when the steps before the i-th fatal step
\* succeeded (i = 6: all of them): a failing SaveComponentConfig may follow configs
\* already saved.
FilesWritten(folder, i) ==
  (IF i >= 2 THEN {<<folder, "device.yaml">>} ELSE {})
    \cup (IF i >= 5 THEN {<<folder, "configs">>} ELSE {})

\* CreateDeviceFolder, SaveDeviceMetadata, GetShellyConfig and the component configs,
\* then the resource classes whose failures are warnings (scripts, schedules,
\* webhooks, KVS, components).  failAt = 6: no fatal step fails.
PullFiles(d) ==
  /\ pc[d] = "CreateFolder"
  /\ \E failAt \in 1..6, warned \in BOOLEAN :
       LET stop == IF failAt > 3 /\ ~CallSucceeds(TRUE) THEN 3 ELSE failAt
           folder == dev[d].Folder
       IN /\ (stop # 6 => ~warned)
          /\ dirs' = [dirs EXCEPT ![d] = IF stop > 1 THEN @ \cup {folder} ELSE @]
          /\ remoteCalls' = [remoteCalls EXCEPT ![d] =
                @ \cup (IF stop >= 3 THEN {"Shelly.GetConfig"} ELSE {})
                  \cup (IF stop = 6
                          THEN {"Script.List", "Schedule.List", "Webhook.List",
                                "KVS.List", "Shelly.GetComponents"}
                          ELSE {})]
          /\ wrote' = [wrote EXCEPT ![d] =
                @ \cup FilesWritten(folder, stop)
                  \cup (IF stop = 6 /\ ~warned THEN {<<folder, "resources">>} ELSE {})]
          /\ IF stop = 6
               THEN /\ allOk' = [allOk EXCEPT ![d] = @ /\ ~warned]
                    /\ Goto(d, "UpdateLastSync")
                    /\ UNCHANGED <<results, groupErr, ctxCancelled>>
               ELSE Fail(d, FatalStepError(stop))
  /\ UNCHANGED <<deviceFilter, devicesToPush, values, allDevices, templateContext>>
  /\ UNCHANGED <<dirty, opState, retErr, retResults, manifest, manifestFile, dev,
                 idx, snap, extCancel>>
  /\ UNCHANGED <<devVars, clientVars>>

\* sm.manifest.UpdateLastSync(device.DeviceID, time.Now()): the lookup loop.
PullUpdateLastSyncScan(d) ==
  /\ pc[d] = "UpdateLastSync"
  /\ idx' = [idx EXCEPT ![d] = FindDevice(manifest, dev[d].DeviceID)]
  /\ Goto(d, "UpdateLastSyncWrite")
  /\ UNCHANGED <<deviceFilter, devicesToPush, values, allDevices, templateContext>>
  /\ UNCHANGED <<dirty, opState, retErr, retResults, manifest, manifestFile, dev,
                 snap, results, groupErr, ctxCancelled, extCancel, dirs, wrote,
                 remoteCalls, allOk>>
  /\ UNCHANGED <<devVars, clientVars>>

\* An UpdateLastSync whose loop stamps every entry.
PullUpdateLastSyncWriteAll(d) ==
  /\ pc[d] = "UpdateLastSyncWrite"
  /\ manifest' = [i \in 1..Len(manifest) |-> [manifest[i] EXCEPT !.LastSync = Now]]
  /\ idx' = [idx EXCEPT ![d] = 0]
  /\ Finish(d, [NewResult(dev[d].DeviceID) EXCEPT !.Success = TRUE])
  /\ UNCHANGED <<deviceFilter, devicesToPush, values, allDevices, templateContext>>
  /\ UNCHANGED <<dirty, opState, retErr, retResults, manifestFile, dev, snap,
                 extCancel, dirs, wrote, remoteCalls, allOk>>
  /\ UNCHANGED <<devVars, clientVars>>

\* m.Devices[i].LastSync = syncTime, then result.Success = true; return result.
PullUpdateLastSyncWrite(d) ==
  /\ pc[d] = "UpdateLastSyncWrite"
  /\ manifest' = IF idx[d] # 0 THEN [manifest EXCEPT ![idx[d]].LastSync = Now]
                               ELSE manifest
  /\ idx' = [idx EXCEPT ![d] = 0]
  /\ Finish(d, [NewResult(dev[d].DeviceID) EXCEPT !.Success = TRUE])
  /\ UNCHANGED <<deviceFilter, devicesToPush, values, allDevices, templateContext>>
  /\ UNCHANGED <<dirty, opState, retErr, retResults, manifestFile, dev, snap,
                 extCancel, dirs, wrote, remoteCalls, allOk>>
  /\ UNCHANGED <<devVars, clientVars>>

\* ------------------------------------------------------------ specification

Init == PullInit

Next ==
  \/ PullStart
  \/ PullWait
  \/ \E d \in Devices : PullGetDeviceInfo(d)
  \/ \E d \in Devices : PullAddDeviceScan(d)
  \/ \E d \in Devices : PullAddDeviceWrite(d)
  \/ \E d \in Devices : PullSaveMarshal(d)
  \/ \E d \in Devices : PullSaveWrite(d)
  \/ \E d \in Devices : PullFiles(d)
  \/ \E d \in Devices : PullUpdateLastSyncScan(d)
  \/ \E d \in Devices : PullUpdateLastSyncWrite(d)

Spec == Init /\ [][Next]_vars

\* ------------------------------------------------------- push: orchestrator

\* Entries a device filter is made of.
MaxFilter == 2

\* The device id as the registry spells it.
DeviceIDText(d) == "Shelly-" \o ToString(d)

\* Strings a caller may pass in the filter: names and ids in any case, and one
\* that matches nothing.
FilterEntries ==
  {"kitchen", "KITCHEN", "hall", "attic"}
    \cup {"SHELLY-" \o ToString(d) : d \in Devices}
    \cup {"shelly-" \o ToString(d) : d \in Devices}

Filters == {F \in SUBSET FilterEntries : Cardinality(F) <= MaxFilter}

\* A filter lookup that compares the strings as they are.
ToLowerIdentity(str) == str

\* strings.ToLower on the strings of the name domain, the filter and the ids.
ToLower(str) ==
  IF str \in {"Kitchen", "KITCHEN"} THEN "kitchen"
  ELSE IF \E d \in Devices : str \in {"Shelly-" \o ToString(d), "SHELLY-" \o ToString(d)}
    THEN "shelly-" \o ToString(CHOOSE d \in Devices :
                                 str \in {"Shelly-" \o ToString(d), "SHELLY-" \o ToString(d)})
  ELSE str

\* devicesToPush: the registry, or with a filter the devices whose id or name is
\* in the filter map, lower-cased on both sides.
SelectDevices(devices, filter) ==
  IF filter = {} THEN devices
  ELSE LET filterMap == {ToLower(f) : f \in filter}
           Matches(device) ==
             \/ ToLower(DeviceIDText(device.DeviceID)) \in filterMap
             \/ ToLower(device.Name) \in filterMap
       IN SelectSeq(devices, Matches)

\* Tasks that all store their result in the first slot.
SlotShared(d) == 1

\* The index of device d in devicesToPush (0: not selected).
Slot(d) ==
  IF \E i \in 1..Len(devicesToPush) : devicesToPush[i].DeviceID = d
    THEN CHOOSE i \in 1..Len(devicesToPush) : devicesToPush[i].DeviceID = d
    ELSE 0

\* ------------------------------------------------------------ push: templates

\* gitops.DeviceContext of a registry entry (the identity fields the registry
\* model carries; model, ip_address and mac_address are copied the same way).
DeviceContext(device) ==
  [device_id |-> DeviceIDText(device.DeviceID), name |-> device.Name,
   folder |-> device.Folder]

\* The keys of a device map in the context.
DeviceFields == {"device_id", "name", "folder"}

\* allDevices: one DeviceContext per entry of the registry, keyed by device id.
AllDevices(devices) ==
  [id \in {DeviceIDText(devices[i].DeviceID) : i \in 1..Len(devices)} |->
     DeviceContext(devices[CHOOSE i \in 1..Len(devices) :
                             /\ DeviceIDText(devices[i].DeviceID) = id
                             /\ \A j \in (i + 1)..Len(devices) :
                                  DeviceIDText(devices[j].DeviceID) # id])]

\* A context whose devices map holds the current device only.
CreateTemplateContextOwnDevice(vals, currentDevice, all) ==
  {e \in vals : e[1][1] \notin {"device", "devices"}}
    \cup {<<<<"device", f>>, currentDevice[f]>> : f \in DeviceFields}
    \cup {<<<<"devices", currentDevice.device_id, f>>, currentDevice[f]>> : f \in DeviceFields}

\* CreateTemplateContext: the values at the root, then device and devices, which
\* replace values of the same name.  The context is the set of its <<path, value>>
\* entries.
CreateTemplateContext(vals, currentDevice, all) ==
  {e \in vals : e[1][1] \notin {"device", "devices"}}
    \cup {<<<<"device", f>>, currentDevice[f]>> : f \in DeviceFields}
    \cup {<<<<"devices", id, f>>, all[id][f]>> : id \in DOMAIN all, f \in DeviceFields}

\* What a context holds at a path: a string, a map, or no entry.
Kind(context, path) ==
  IF \E e \in context : e[1] = path THEN "string"
  ELSE IF \E e \in context :
            Len(e[1]) > Len(path) /\ SubSeq(e[1], 1, Len(path)) = path THEN "map"
  ELSE "none"

ValueAt(context, path) == (CHOOSE e \in context : e[1] = path)[2]

\* template.Parse of the template strings: a chain of fields (.a.b), the index
\* builtin applied to the keys of a path (the first key of a devices path is the
\* field .devices), or a parse error.
ParseTemplate(tmplStr) ==
  CASE tmplStr = "{{ .api.endpoint }}" -> [fn |-> "field", path |-> <<"api", "endpoint">>]
    [] tmplStr = "{{ .missing }}" -> [fn |-> "field", path |-> <<"missing">>]
    [] tmplStr = "{{ .api.missing }}" -> [fn |-> "field", path |-> <<"api", "missing">>]
    [] tmplStr = "{{ .device.name }}" -> [fn |-> "field", path |-> <<"device", "name">>]
    [] tmplStr = "{{ .device.room }}" -> [fn |-> "field", path |-> <<"device", "room">>]
    [] tmplStr = "{{ index . \"site\" }}" -> [fn |-> "index", path |-> <<"site">>]
    [] tmplStr = "{{ index (index .devices \"Shelly-1\") \"name\" }}"
         -> [fn |-> "index", path |-> <<"devices", "Shelly-1", "name">>]
    [] tmplStr = "{{ index (index .devices \"Shelly-1\") \"room\" }}"
         -> [fn |-> "index", path |-> <<"devices", "Shelly-1", "room">>]
    [] tmplStr = "{{ index (index .devices \"Shelly-9\") \"name\" }}"
         -> [fn |-> "index", path |-> <<"devices", "Shelly-9", "name">>]
    [] OTHER -> [fn |-> "error", path |-> << >>]

\* What Execute prints for a map.
MapText == "map[...]"

\* What Execute prints for the nil interface.
NoValue == "<no value>"

\* Execute under Option("missingkey=error").  A field of a map that has no such
\* key is an error.  The index builtin does not consult the option: on a map
\* without the key it yields the zero value of the element type, the nil
\* interface, which prints as NoValue; applied to nil or to a string it is an
\* error.
Execute(tmpl, context) ==
  LET parent == SubSeq(tmpl.path, 1, Len(tmpl.path) - 1)
      kind == Kind(context, tmpl.path)
      found == IF kind = "string" THEN ValueAt(context, tmpl.path) ELSE MapText
  IN CASE tmpl.fn = "field" ->
            IF kind = "none" THEN [out |-> "", err |-> TRUE]
            ELSE [out |-> found, err |-> FALSE]
       [] tmpl.fn = "index" ->
            IF Kind(context, parent) # "map" THEN [out |-> "", err |-> TRUE]
            ELSE IF kind = "none" THEN [out |-> NoValue, err |-> FALSE]
            ELSE [out |-> found, err |-> FALSE]
       [] OTHER -> [out |-> "", err |-> TRUE]

\* RenderTemplate: parse with missingkey=error, then execute.
RenderTemplate(tmplStr, context) ==
  LET tmpl == ParseTemplate(tmplStr)
  IN IF tmpl.fn = "error" THEN [out |-> "", err |-> TRUE]
     ELSE Execute(tmpl, context)

\* RenderKVSValue: non-string and non-templated values pass through.
RenderKVSValue(value, context) ==
  IF ~IsString(value) THEN [value |-> value, wasTemplated |-> FALSE, err |-> FALSE]
  ELSE IF ~IsTemplated(value) THEN [value |-> value, wasTemplated |-> FALSE, err |-> FALSE]
  ELSE LET r == RenderTemplate(value, context)
       IN IF r.err THEN [value |-> Absent, wasTemplated |-> TRUE, err |-> TRUE]
          ELSE [value |-> r.out, wasTemplated |-> TRUE, err |-> FALSE]

\* PushToDevices up to the end of the spawn loop: the values file, the selection,
\* the group and one task per selected device.
PushStart ==
  /\ opState = "init"
  /\ \E valuesOk, flag \in BOOLEAN, filter \in Filters :
      /\ dryRun' = flag
      /\ IF ~valuesOk
         THEN /\ filter = {} /\ ~flag
              /\ opState' = "returned"
              /\ retErr' = "failed to load values file"
              /\ UNCHANGED <<pc, dev, results, deviceFilter, devicesToPush, allDevices>>
         ELSE LET selected == SelectDevices(manifest, filter)
              IN /\ deviceFilter' = filter
                 /\ allDevices' = AllDevices(manifest)
                 /\ devicesToPush' = selected
                 /\ results' = [i \in 1..Len(selected) |-> ZeroResult]
                 /\ pc' = [d \in Devices |->
                            IF \E i \in 1..Len(selected) : selected[i].DeviceID = d
                              THEN "push:start" ELSE "idle"]
                 /\ dev' = [d \in Devices |-> manifest[d]]
                 /\ opState' = "pushing"
                 /\ UNCHANGED retErr
  /\ UNCHANGED <<dirty, retResults, manifest, manifestFile, idx, snap, groupErr,
                 ctxCancelled, extCancel, dirs, wrote, remoteCalls, allOk, values,
                 templateContext>>
  /\ UNCHANGED <<local, remote, local0, remote0, faultLimit, hist, ppc, listed, todo, dels, calls,
                 created, faults, stderr, pres>>
  /\ UNCHANGED clientVars

\* pushDeviceConfig returns res; the closure stores it in its slot and returns
\* TaskError(res) to the errgroup.
PushFinish(d, res) ==
  /\ results' = [results EXCEPT ![Slot(d)] = res]
  /\ LET err == TaskError(res) IN
       IF err # "nil" /\ groupErr = "nil"
         THEN groupErr' = err /\ ctxCancelled' = TRUE
         ELSE UNCHANGED <<groupErr, ctxCancelled>>
  /\ Goto(d, "done")

\* A push task: the folder check of pushDeviceConfig, the return of a dry run,
\* then the template context of the device.
PushTaskBegin(d) ==
  /\ pc[d] = "push:start"
  /\ IF ~DeviceExists(d, dev[d].Folder)
       THEN /\ PushFinish(d, [NewResult(d) EXCEPT !.Error = "device folder does not exist"])
            /\ allOk' = [allOk EXCEPT ![d] = FALSE]
            /\ UNCHANGED templateContext
       ELSE IF dryRun
         THEN /\ PushFinish(d, [NewResult(d) EXCEPT !.Success = TRUE])
              /\ UNCHANGED <<templateContext, allOk>>
       ELSE /\ Goto(d, "push:sections")
            /\ templateContext' =
                 [templateContext EXCEPT
                    ![d] = CreateTemplateContext(values, DeviceContext(dev[d]), allDevices)]
            /\ UNCHANGED <<results, groupErr, ctxCancelled, allOk>>
  /\ UNCHANGED <<dirty, opState, retErr, retResults, manifest, manifestFile, dev, idx,
                 snap, extCancel, dirs, wrote, remoteCalls, deviceFilter, devicesToPush,
                 values, allDevices>>
  /\ UNCHANGED <<devVars, clientVars>>

\* A push task: the sections of pushDeviceConfig.  Only the listing of the config
\* files ends the task with an error; an RPC that fails (as all do once the
\* context is cancelled) is a logged record failure.
PushTaskSections(d) ==
  /\ pc[d] = "push:sections"
  /\ \E listOk, reply \in BOOLEAN :
       IF ~listOk
         THEN /\ reply
              /\ PushFinish(d, [NewResult(d) EXCEPT !.Error = "failed to list component configs"])
              /\ allOk' = [allOk EXCEPT ![d] = FALSE]
              /\ UNCHANGED remoteCalls
         ELSE /\ PushFinish(d, [NewResult(d) EXCEPT !.Success = TRUE])
              /\ allOk' = [allOk EXCEPT ![d] = @ /\ CallSucceeds(reply)]
              /\ remoteCalls' = [remoteCalls EXCEPT ![d] = @ \cup {"Script.List"}]
  /\ UNCHANGED <<dirty, opState, retErr, retResults, manifest, manifestFile, dev, idx,
                 snap, extCancel, dirs, wrote, deviceFilter, devicesToPush, values,
                 allDevices, templateContext>>
  /\ UNCHANGED <<devVars, clientVars>>

\* g.Wait() and the return of PushToDevices.
PushWait ==
  /\ opState = "pushing"
  /\ \A d \in Devices : pc[d] \in {"idle", "done"}
  /\ opState' = "returned"
  /\ retErr' = groupErr
  /\ retResults' = TRUE
  /\ ctxCancelled' = TRUE
  /\ UNCHANGED <<dirty, manifest, manifestFile, pc, dev, idx, snap, results, groupErr,
                 extCancel, dirs, wrote, remoteCalls, allOk, deviceFilter, devicesToPush,
                 values, allDevices, templateContext>>
  /\ UNCHANGED <<devVars, clientVars>>

\* The caller cancels the context it passed to PullFromDevices or PushToDevices;
\* the group's context is derived from it.
ExternalCancel ==
  /\ opState # "returned"
  /\ ~extCancel
  /\ extCancel' = TRUE
  /\ ctxCancelled' = TRUE
  /\ UNCHANGED <<dirty, opState, retErr, retResults, manifest, manifestFile, pc, dev,
                 idx, snap, results, groupErr, dirs, wrote, remoteCalls, allOk,
                 deviceFilter, devicesToPush, values, allDevices, templateContext>>
  /\ UNCHANGED <<devVars, clientVars>>

PushGroupNext ==
  \/ PushStart
  \/ \E d \in Devices : PushTaskBegin(d)
  \/ \E d \in Devices : PushTaskSections(d)
  \/ PushWait

\* A run of either operation over a registry whose first device may have lost its
\* folder.
GroupInit ==
  /\ PullInit
  /\ ~dirty
  /\ \A d \in Devices : d # 1 => dirs[d] # {}

SpecGroup == GroupInit /\ [][Next \/ PushGroupNext \/ ExternalCancel]_vars

\* Names the registry may hold for a device.
RegistryNames == {"kitchen", "Kitchen", "hall"}

\* A push over a registry with any names; the device folders exist, and the
\* values file may have a device key of its own.
SelectInit ==
  /\ dirty = FALSE
  /\ opState = "init"
  /\ retErr = "nil"
  /\ retResults = FALSE
  /\ \E names \in [Devices -> RegistryNames] :
       manifest = [i \in Devices |-> Device(i, names[i], NewFolderName(names[i]), 0)]
  /\ manifestFile = manifest
  /\ pc = [d \in Devices |-> "idle"]
  /\ dev = [d \in Devices |-> manifest[d]]
  /\ idx = [d \in Devices |-> 0]
  /\ snap = [d \in Devices |-> << >>]
  /\ results = << >>
  /\ groupErr = "nil"
  /\ ctxCancelled = FALSE
  /\ extCancel = FALSE
  /\ dirs = [d \in Devices |-> {manifest[d].Folder}]
  /\ wrote = [d \in Devices |-> {}]
  /\ remoteCalls = [d \in Devices |-> {}]
  /\ allOk = [d \in Devices |-> TRUE]
  /\ deviceFilter = {}
  /\ devicesToPush = << >>
  /\ values \in {DefaultValues, DefaultValues \cup {<<<<"device">>, "mine">>}}
  /\ allDevices = << >>
  /\ templateContext = [d \in Devices |-> {}]
  /\ DevIdle

SpecSelect == SelectInit /\ [][PushGroupNext]_vars

\* ----------------------------------------------------- one device: pull, KVS

\* A merge that lets the device value replace a templated local value.
KeepsLocalNever(existingValue) == FALSE

\* The local value is kept: it exists, is a string and is templated.
KeepsLocal(existingValue) ==
  existingValue # Absent /\ IsString(existingValue) /\ IsTemplated(existingValue)

\* mergedKVS: a copy of existingKVS, overwritten with the device value of every
\* device key whose local value is not a template.
MergeKVS(existingKVS, kvsData) ==
  [key \in Keys |->
     IF kvsData[key] # Absent /\ ~KeepsLocal(existingKVS[key])
       THEN kvsData[key]
       ELSE existingKVS[key]]

\* Client.GetKVS: KVS.List, then KVS.GetMany unless the device has no key.  The
\* points where it can fail ("" is no failure).
GetKVSFailures(kvs) ==
  {"", "KVS.List"} \cup (IF KVSKeys(kvs) # {} THEN {"KVS.GetMany"} ELSE {})

\* The RPCs of a GetKVS that fails at the given point.
GetKVSCalls(kvs, failure) ==
  IF failure = "KVS.List" \/ KVSKeys(kvs) = {}
    THEN <<Call("kvs", "KVS.List", "", failure = "")>>
    ELSE <<Call("kvs", "KVS.List", "", TRUE), Call("kvs", "KVS.GetMany", "", failure = "")>>

\* The KVS step of pullDeviceConfig: GetKVS, LoadKVS (its error is dropped: the local
\* set then counts as empty), the merge, SaveKVS.
PullKVS ==
  /\ ppc = "pull:kvs"
  /\ \E failure \in GetKVSFailures(remote.kvs), loadOk, saveOk \in BOOLEAN :
       LET merges == failure = "" /\ KVSKeys(remote.kvs) # {}
           existingKVS == IF loadOk THEN local.kvs ELSE EmptyKVS
       IN /\ (~merges => loadOk /\ saveOk)
          /\ local' = IF merges /\ saveOk
                        THEN [local EXCEPT !.kvs = MergeKVS(existingKVS, remote.kvs)]
                        ELSE local
          /\ faults' = faults \o (IF failure = "" THEN << >> ELSE <<"GetKVS">>)
                               \o (IF loadOk THEN << >> ELSE <<"LoadKVS">>)
                               \o (IF saveOk THEN << >> ELSE <<"SaveKVS">>)
          /\ calls' = calls \o GetKVSCalls(remote.kvs, failure)
  /\ ppc' = "pull:components"
  /\ stderr' = stderr \o Diagnostics("pull", NewFaults)
  /\ UNCHANGED <<remote, local0, remote0, faultLimit, hist, dryRun, listed, todo, dels, created, pres>>
  /\ UNCHANGED <<pullVars, clientVars>>

\* A device task that has reached the KVS step of its pull.
KVSPullInit ==
  /\ PullIdle
  /\ \E lk \in [Keys -> LocalValues \cup {Absent}], rk \in [Keys -> RemoteValues \cup {Absent}] :
       /\ local = [EmptyStore EXCEPT !.kvs = lk]
       /\ remote = [EmptyStore EXCEPT !.kvs = rk]
       /\ local0 = local
       /\ remote0 = remote
       /\ faultLimit = MaxFaults
  /\ hist = << >>
  /\ ppc = "pull:kvs"
  /\ dryRun = FALSE
  /\ listed = {}
  /\ todo = {}
  /\ dels = {}
  /\ calls = << >>
  /\ created = {}
  /\ faults = << >>
  /\ stderr = << >>
  /\ pres = NoResult

SpecKVSPull == KVSPullInit /\ [][PullKVS]_vars

\* ------------------------------------------------------- one device: push

\* Ids the device can hand out for a created script, schedule or webhook.
RemoteIds == 1..MaxId

\* Ids found in the record files of a device folder.
LocalIds == {1, 2}

\* Component config files of a device folder (configs/<name>.json), in the order
\* ListComponentConfigs returns them.
ConfigOrder == <<"cloud", "script-1", "sys", "wifi">>

ConfigFiles == {ConfigOrder[i] : i \in 1..Len(ConfigOrder)}

Ids(records) == {r.ID : r \in records}

Min(S) == CHOOSE x \in S : \A y \in S : x <= y

\* The record with the given id.
Rec(records, id) == CHOOSE r \in records : r.ID = id

\* A script metadata file, a schedule file or a webhook file.
LocalRecord(id, enable) == [ID |-> id, Enable |-> enable]

\* A script, schedule or webhook on the device.  Src names the local record whose
\* content (code, timespec and calls, urls) it carries; 0 is content that did not
\* come from the folder.
RemoteRecord(id, src, enable, running) ==
  [ID |-> id, Src |-> src, Enable |-> enable, Running |-> running]

Label(phase, class) == phase \o ":" \o class

\* n times the same entry.
Repeat(name, n) == [i \in 1..n |-> name]

\* Another call may fail.
MayFail == Len(faults) < faultLimit

\* pushDeviceConfig returns: the result, and the device as the push left it.
PushReturn(res, rem) ==
  /\ pres' = res
  /\ hist' = Append(hist, rem)
  /\ ppc' = "done"

\* A push that replaces the dry-run short-circuit by a real run.
DryRunReturnsNever(flag) == FALSE

\* The dry-run short-circuit of pushDeviceConfig.
DryRunReturns(flag) == flag

\* result.Message of a dry run.
DryRunMessage == "dry-run: would push all configurations"

\* pushDeviceConfig up to the template context: folder check and dry-run.
PushBegin ==
  /\ ppc = "start"
  /\ \E exists \in BOOLEAN :
       /\ (~exists => MayFail)
       /\ IF ~exists
            THEN /\ PushReturn([NoResult EXCEPT !.Error = "device folder does not exist"],
                               remote)
                 /\ faults' = Append(faults, "DeviceExists")
            ELSE /\ faults' = faults
                 /\ IF DryRunReturns(dryRun)
                      THEN PushReturn([Success |-> TRUE, Error |-> "nil",
                                       Message |-> DryRunMessage],
                                      remote)
                      ELSE ppc' = "configs" /\ UNCHANGED <<pres, hist>>
  /\ stderr' = stderr \o Diagnostics("push", NewFaults)
  /\ UNCHANGED <<local, remote, local0, remote0, faultLimit, dryRun, listed, todo, dels, calls, created>>
  /\ UNCHANGED <<pullVars, clientVars>>

\* The component a config file is pushed to: "switch-0" -> Switch, "sys" -> Sys.
ComponentName(componentFile) ==
  CASE componentFile = "sys" -> "Sys"
    [] componentFile = "wifi" -> "Wifi"
    [] componentFile = "cloud" -> "Cloud"
    [] OTHER -> "Script"

\* A push that skips the cloud config only.
SkippedConfigCloudOnly(componentFile) == componentFile = "cloud"

\* Config files the push skips: cloud, and the script-<n> configs.
SkippedConfig(componentFile) ==
  componentFile = "cloud" \/ componentFile \in {"script-1"}

\* The component config loop: every file that is not skipped is loaded, parsed and
\* sent with <Component>.SetConfig; a file that fails to load or parse is logged
\* and left out, a failed SetConfig is logged, and the loop goes on.
PushConfigs ==
  /\ ppc = "configs"
  /\ LET sent == {f \in local.config : ~SkippedConfig(f)}
     IN \E listOk \in BOOLEAN, unread \in SUBSET sent, failed \in SUBSET sent :
          /\ unread \cap failed = {}
          /\ (~listOk => MayFail /\ failed = {} /\ unread = {})
          /\ (failed \cup unread # {} =>
                Len(faults) + Cardinality(failed) + Cardinality(unread) <= faultLimit)
          /\ IF ~listOk
               THEN /\ PushReturn([NoResult EXCEPT !.Error = "failed to list component configs"],
                                  remote)
                    /\ faults' = Append(faults, "ListComponentConfigs")
                    /\ UNCHANGED <<remote, calls>>
               ELSE /\ remote' = [remote EXCEPT !.config =
                          @ \cup {ComponentName(f) : f \in sent \ (failed \cup unread)}]
                    /\ calls' = calls \o
                         LET files == SelectSeq(ConfigOrder, LAMBDA f : f \in sent \ unread)
                         IN [i \in 1..Len(files) |->
                               Call("config", ComponentName(files[i]) \o ".SetConfig", 0,
                                    files[i] \notin failed)]
                    /\ faults' = faults \o Repeat("LoadComponentConfig", Cardinality(unread))
                                        \o Repeat("SetConfig", Cardinality(failed))
                    /\ ppc' = Label("list", "script")
                    /\ UNCHANGED <<pres, hist>>
  /\ stderr' = stderr \o Diagnostics("push", NewFaults)
  /\ UNCHANGED <<local, local0, remote0, faultLimit, dryRun, listed, todo, dels, created>>
  /\ UNCHANGED <<pullVars, clientVars>>

\* ------------------------------------------- push: scripts, schedules, webhooks

\* The RPC prefix of a resource class.
Service(class) ==
  CASE class = "script" -> "Script"
    [] class = "schedule" -> "Schedule"
    [] class = "webhook" -> "Webhook"

\* A push that reconciles the webhooks before the schedules.
AfterClassWebhooksFirst(class) ==
  CASE class = "script" -> Label("list", "webhook")
    [] class = "webhook" -> Label("list", "schedule")
    [] class = "schedule" -> "kvs"

\* The step that follows the reconciliation of a class.
AfterClass(class) ==
  CASE class = "script" -> Label("list", "schedule")
    [] class = "schedule" -> Label("list", "webhook")
    [] class = "webhook" -> "kvs"

\* A push that gives the class up after its first record.
ResumeWithNextClass(class, records, deletes) == AfterClass(class)

\* Where the task stands with these local records and these remote ids left.
Resume(class, records, deletes) ==
  IF records # {} THEN Label("loop", class)
  ELSE IF deletes # {} THEN Label("del", class)
  ELSE AfterClass(class)

\* A push without delete loops.
RemoteOnlyNone(class, deviceIds, localIds) == {}

\* The remote ids the delete loop of a class visits: schedules and webhooks that
\* have no local file.  The script section has no delete loop.
RemoteOnly(class, deviceIds, localIds) ==
  IF class = "script" THEN {} ELSE deviceIds \ localIds

\* A listing that is compared with whatever the device holds when the call failed.
DeviceListingKept(callOk, records) == records

\* The device's records the loops of a class compare with: the listing, or no
\* record when the call failed.
DeviceListing(callOk, records) == IF callOk THEN records ELSE {}

\* The two listings of a class: the local files (an error counts as no file) and
\* the device's records (an error is logged and counts as no record).
PushList(class) ==
  /\ ppc = Label("list", class)
  /\ \E localOk, remoteOk \in BOOLEAN :
       LET files == IF localOk THEN local[class] ELSE {}
           deviceRecords == DeviceListing(remoteOk, remote[class])
           deletes == RemoteOnly(class, Ids(deviceRecords), Ids(files))
       IN /\ Len(faults) + (IF localOk THEN 0 ELSE 1) + (IF remoteOk THEN 0 ELSE 1)
               <= faultLimit
          /\ listed' = deviceRecords
          /\ todo' = Ids(files)
          /\ dels' = deletes
          /\ faults' = faults \o (IF localOk THEN << >> ELSE <<Label("ListLocal", class)>>)
                              \o (IF remoteOk THEN << >> ELSE <<Service(class) \o ".List">>)
          /\ calls' = Append(calls, Call(class, Service(class) \o ".List", 0, remoteOk))
          /\ ppc' = Resume(class, Ids(files), deletes)
  /\ stderr' = stderr \o Diagnostics("push", NewFaults)
  /\ UNCHANGED <<local, remote, local0, remote0, faultLimit, hist, dryRun, created, pres>>
  /\ UNCHANGED <<pullVars, clientVars>>

\* The local record's id is the id of a record of the device's listing.
ExistsOnDevice(id, deviceRecords) == id \in Ids(deviceRecords)

\* Ids the device can assign to a new record.
FreeIds(records) == RemoteIds \ Ids(records)

\* A script loop that uploads the code without stopping a running script.
ScriptOpsWithoutStop(meta, deviceRecords) ==
  (IF ~ExistsOnDevice(meta.ID, deviceRecords) THEN <<"Script.Create">> ELSE << >>)
  \o <<"Script.PutCode", "Script.SetConfig">>
  \o (IF meta.Enable THEN <<"Script.Start">> ELSE << >>)

\* The methods the script loop calls for one local script, in order.
ScriptOps(meta, deviceRecords) ==
  (IF ~ExistsOnDevice(meta.ID, deviceRecords) THEN <<"Script.Create">>
   ELSE IF Rec(deviceRecords, meta.ID).Running THEN <<"Script.Stop">>
   ELSE << >>)
  \o <<"Script.PutCode", "Script.SetConfig">>
  \o (IF meta.Enable THEN <<"Script.Start">> ELSE << >>)

\* The effect of one successful RPC on the device's records of a class.
Apply(records, op, id, meta) ==
  LET set(r) ==
        CASE op \in {"Schedule.Update", "Webhook.Update"} ->
               RemoteRecord(id, meta.ID, meta.Enable, FALSE)
          [] op = "Script.PutCode" -> [r EXCEPT !.Src = meta.ID]
          [] op = "Script.SetConfig" -> [r EXCEPT !.Enable = meta.Enable]
          [] op = "Script.Start" -> [r EXCEPT !.Running = TRUE]
          [] op = "Script.Stop" -> [r EXCEPT !.Running = FALSE]
          [] OTHER -> r
  IN CASE op = "Script.Create" ->
            records \cup {RemoteRecord(id, 0, FALSE, FALSE)}
       [] op \in {"Schedule.Create", "Webhook.Create"} ->
            records \cup {RemoteRecord(id, meta.ID, meta.Enable, FALSE)}
       [] op \in {"Script.Delete", "Schedule.Delete", "Webhook.Delete"} ->
            {r \in records : r.ID # id}
       [] OTHER -> {IF r.ID = id THEN set(r) ELSE r : r \in records}

\* The device's records after the first n RPCs of ops succeeded.
RECURSIVE ApplyAll(_, _, _, _, _)
ApplyAll(records, ops, n, id, meta) ==
  IF n = 0 THEN records
  ELSE Apply(ApplyAll(records, ops, n - 1, id, meta), ops[n], id, meta)

\* The methods the loop of a class calls for one local record, in order: for a
\* schedule or a webhook, Update if the id is in the listing, Create otherwise.
RecordOps(class, meta, deviceRecords) ==
  IF class = "script" THEN ScriptOps(meta, deviceRecords)
  ELSE IF ExistsOnDevice(meta.ID, deviceRecords) THEN <<Service(class) \o ".Update">>
  ELSE <<Service(class) \o ".Create">>

IsCreate(op) == op \in {"Script.Create", "Schedule.Create", "Webhook.Create"}

\* A loop that logs a failed call and goes on with the record's remaining calls.
IssuedAll(ops, failAt) == Len(ops)

\* The calls of ops an iteration issues when the failAt-th fails (0: none does):
\* the failing call is the last one, the iteration ends with continue.
Issued(ops, failAt) == IF failAt = 0 THEN Len(ops) ELSE failAt

\* One iteration of the loop over the local records of a class.  failAt is the RPC
\* that fails (0: none); a failure is logged and ends the iteration.  The id
\* returned by a create is used for the script's remaining RPCs and then dropped
\* with the loop variable; for a schedule or webhook it is discarded at once.  The
\* folder is not written.
PushRecord(class) ==
  /\ ppc = Label("loop", class)
  /\ LET id == Min(todo)
         meta == Rec(local[class], id)
         ops == RecordOps(class, meta, listed)
         free == FreeIds(remote[class])
         creates == IsCreate(ops[1])
     IN \E loadOk \in BOOLEAN, failAt \in 0..Len(ops),
           newId \in (IF creates /\ free # {} THEN free ELSE {0}) :
          LET issued == IF ~loadOk THEN 0 ELSE Issued(ops, failAt)
              done == IF ~loadOk THEN 0 ELSE IF failAt = 0 THEN Len(ops) ELSE failAt - 1
              target == IF creates THEN newId ELSE id
          IN /\ (~loadOk => class = "script" /\ failAt = 0 /\ MayFail)
             /\ (creates /\ free = {} /\ loadOk => failAt = 1)
             /\ (failAt # 0 /\ ~(creates /\ free = {}) => MayFail)
             /\ remote' = [remote EXCEPT ![class] = ApplyAll(@, ops, done, target, meta)]
             /\ calls' = calls \o [i \in 1..issued |->
                                     Call(class, ops[i], IF IsCreate(ops[i]) THEN id ELSE target,
                                          i <= done)]
             /\ created' = IF creates /\ done >= 1
                             THEN created \cup {[class |-> class, localId |-> id, id |-> newId]}
                             ELSE created
             /\ faults' = IF ~loadOk THEN Append(faults, "LoadScript")
                           ELSE IF failAt # 0 THEN Append(faults, ops[failAt])
                           ELSE faults
             /\ todo' = todo \ {id}
             /\ ppc' = Resume(class, todo \ {id}, dels)
  /\ stderr' = stderr \o Diagnostics("push", NewFaults)
  /\ UNCHANGED <<local, local0, remote0, faultLimit, hist, dryRun, listed, dels, pres>>
  /\ UNCHANGED <<pullVars, clientVars>>

\* One iteration of the loop that deletes the device's schedules (webhooks) whose
\* id has no local file.
PushDelete(class) ==
  /\ ppc = Label("del", class)
  /\ LET id == Min(dels)
         op == Service(class) \o ".Delete"
     IN \E ok \in BOOLEAN :
          /\ (~ok => MayFail)
          /\ remote' = IF ok THEN [remote EXCEPT ![class] = Apply(@, op, id, LocalRecord(id, FALSE))]
                        ELSE remote
          /\ calls' = Append(calls, Call(class, op, id, ok))
          /\ faults' = IF ok THEN faults ELSE Append(faults, op)
          /\ dels' = dels \ {id}
          /\ ppc' = Resume(class, {}, dels \ {id})
  /\ stderr' = stderr \o Diagnostics("push", NewFaults)
  /\ UNCHANGED <<local, local0, remote0, faultLimit, hist, dryRun, listed, todo, created, pres>>
  /\ UNCHANGED <<pullVars, clientVars>>

\* ----------------------------------------------------------------- push: KVS

\* The template context of the device task seen alone: the loaded values, the
\* task's registry entry and every device of the registry.
TaskContext ==
  CreateTemplateContext(values, DeviceContext(manifest[1]), AllDevices(manifest))

\* The counters of pushDeviceConfig, from the calls of the push: a config file
\* counts when its SetConfig succeeded, a script when its Script.SetConfig did
\* (a failed start is a warning), a schedule or webhook when its update or create
\* did, a KVS entry when its KVS.Set did.
PushCounts(log) ==
  LET N(class, ops) ==
        Cardinality({i \in 1..Len(log) :
                       log[i].class = class /\ log[i].ok /\ log[i].op \in ops})
  IN [config |-> N("config", {"Sys.SetConfig", "Wifi.SetConfig", "Cloud.SetConfig",
                             "Script.SetConfig"}),
      script |-> N("script", {"Script.SetConfig"}),
      schedule |-> N("schedule", {"Schedule.Update", "Schedule.Create"}),
      webhook |-> N("webhook", {"Webhook.Update", "Webhook.Create"}),
      kvs |-> N("kvs", {"KVS.Set"})]

\* msgParts: one part per counter above zero, in the order of the sections.
MsgParts(counts) ==
  LET Part(n, unit) == IF n > 0 THEN <<ToString(n) \o " " \o unit>> ELSE << >>
  IN Part(counts.config, "config(s)") \o Part(counts.script, "script(s)")
       \o Part(counts.schedule, "schedule(s)") \o Part(counts.webhook, "webhook(s)")
       \o Part(counts.kvs, "KVS item(s)")

\* strings.Join(parts, ", ")
RECURSIVE Join(_)
Join(parts) ==
  IF Len(parts) = 0 THEN ""
  ELSE IF Len(parts) = 1 THEN parts[1]
  ELSE parts[1] \o ", " \o Join(Tail(parts))

\* The success message of a push.
PushMessage(counts) ==
  IF Len(MsgParts(counts)) > 0 THEN "pushed " \o Join(MsgParts(counts))
  ELSE "pushed to device"

\* A push that reports success only if no call failed.
PushedIfClean ==
  [Success |-> faults' = << >>, Error |-> "nil", Message |-> PushMessage(PushCounts(calls'))]

\* The result of a push that went through every section.
Pushed ==
  [Success |-> TRUE, Error |-> "nil", Message |-> PushMessage(PushCounts(calls'))]

\* The KVS section runs: LoadKVS succeeded and the local set has an entry.
KVSSectionRuns(loadOk, localKVS) == loadOk /\ KVSKeys(localKVS) # {}

\* Where the KVS section stands with these keys left to set and to delete.
ResumeKVS(sets, deletes, rem) ==
  IF sets # {} THEN ppc' = "kvs:set" /\ UNCHANGED <<pres, hist>>
  ELSE IF deletes # {} THEN ppc' = "kvs:del" /\ UNCHANGED <<pres, hist>>
  ELSE PushReturn(Pushed, rem)

\* Start of the KVS section: LoadKVS and, if it runs, GetKVS (an error counts as
\* an empty device KVS and is not logged).
PushKVSLoad ==
  /\ ppc = "kvs"
  /\ \E loadOk \in BOOLEAN, failure \in GetKVSFailures(remote.kvs) :
       LET runs == KVSSectionRuns(loadOk, local.kvs)
           deviceKVS == IF failure = "" THEN remote.kvs ELSE EmptyKVS
           sets == IF runs THEN KVSKeys(local.kvs) ELSE {}
           deletes == IF runs THEN KVSKeys(deviceKVS) \ KVSKeys(local.kvs) ELSE {}
       IN /\ Len(faults) + (IF loadOk THEN 0 ELSE 1) + (IF failure = "" THEN 0 ELSE 1)
               <= faultLimit
          /\ (~runs => failure = "")
          /\ todo' = sets
          /\ dels' = deletes
          /\ listed' = {}
          /\ calls' = IF runs THEN calls \o GetKVSCalls(remote.kvs, failure) ELSE calls
          /\ faults' = faults \o (IF loadOk THEN << >> ELSE <<"LoadKVS">>)
                              \o (IF failure = "" THEN << >> ELSE <<"GetKVS">>)
          /\ ResumeKVS(sets, deletes, remote)
  /\ stderr' = stderr \o Diagnostics("push", NewFaults)
  /\ UNCHANGED <<local, remote, local0, remote0, faultLimit, dryRun, created>>
  /\ UNCHANGED <<pullVars, clientVars>>

\* No entry leaves the loop before KVS.Set.
SkippedEntryNever(r) == FALSE

\* The entry leaves the loop iteration before KVS.Set: its template failed to
\* render.
SkippedEntry(r) == r.err

\* One iteration of the loop over the local entries (a map: any order): render,
\* then KVS.Set.  An entry whose template fails to render is logged and skipped.
PushKVSSet ==
  /\ ppc = "kvs:set"
  /\ \E key \in todo, ok \in BOOLEAN :
       LET r == RenderKVSValue(local.kvs[key], TaskContext)
           skip == SkippedEntry(r)
           rem == IF ~skip /\ ok THEN [remote EXCEPT !.kvs[key] = r.value] ELSE remote
       IN /\ (~ok => ~r.err /\ MayFail)
          /\ remote' = rem
          /\ calls' = IF skip THEN calls ELSE Append(calls, Call("kvs", "KVS.Set", key, ok))
          /\ faults' = IF ok THEN faults ELSE Append(faults, "KVS.Set")
          /\ todo' = todo \ {key}
          /\ ResumeKVS(todo \ {key}, dels, rem)
  /\ stderr' = stderr \o Diagnostics("push", NewFaults)
  /\ UNCHANGED <<local, local0, remote0, faultLimit, dryRun, listed, dels, created>>
  /\ UNCHANGED <<pullVars, clientVars>>

\* One iteration of the loop over the device's keys that have no local entry.  A
\* failure goes to result.Message, which the final message then replaces.
PushKVSDelete ==
  /\ ppc = "kvs:del"
  /\ \E key \in dels, ok \in BOOLEAN :
       LET rem == IF ok THEN [remote EXCEPT !.kvs[key] = Absent] ELSE remote
       IN /\ (~ok => MayFail)
          /\ remote' = rem
          /\ calls' = Append(calls, Call("kvs", "KVS.Delete", key, ok))
          /\ faults' = IF ok THEN faults ELSE Append(faults, "KVS.Delete")
          /\ dels' = dels \ {key}
          /\ ResumeKVS({}, dels \ {key}, rem)
  /\ stderr' = stderr \o Diagnostics("push", NewFaults)
  /\ UNCHANGED <<local, local0, remote0, faultLimit, dryRun, listed, todo, created>>
  /\ UNCHANGED <<pullVars, clientVars>>

\* The same push is run once more on the device, with no edit in between.
PushAgain ==
  /\ ppc = "done"
  /\ Len(hist) < MaxPushes
  /\ ppc' = "start"
  /\ calls' = << >>
  /\ created' = {}
  /\ pres' = NoResult
  /\ UNCHANGED <<local, remote, local0, remote0, faultLimit, hist, dryRun, listed, todo, dels,
                 faults, stderr>>
  /\ UNCHANGED <<pullVars, clientVars>>

\* Sets of records with distinct ids.
RecordSets(records) ==
  {S \in SUBSET records : \A a, b \in S : a.ID = b.ID => a = b}

\* Folders whose content is in one place: config files, scripts, schedules,
\* webhooks or KVS entries.
LocalStores ==
  {[EmptyStore EXCEPT !.config = c] : c \in SUBSET ConfigFiles}
  \cup {[EmptyStore EXCEPT !.script = s] :
          s \in RecordSets({LocalRecord(i, e) : i \in LocalIds, e \in BOOLEAN})}
  \cup {[EmptyStore EXCEPT !.schedule = s] :
          s \in RecordSets({LocalRecord(i, TRUE) : i \in LocalIds})}
  \cup {[EmptyStore EXCEPT !.webhook = s] :
          s \in RecordSets({LocalRecord(i, TRUE) : i \in LocalIds})}
  \cup {[EmptyStore EXCEPT !.kvs = k] : k \in [Keys -> LocalValues \cup {Absent}]}

\* Devices whose content is in one place.
RemoteStores ==
  {[EmptyStore EXCEPT !.script = s] :
     s \in RecordSets({RemoteRecord(i, 0, r, r) : i \in LocalIds, r \in BOOLEAN})}
  \cup {[EmptyStore EXCEPT !.schedule = s] :
          s \in RecordSets({RemoteRecord(i, 0, TRUE, FALSE) : i \in LocalIds})}
  \cup {[EmptyStore EXCEPT !.webhook = s] :
          s \in RecordSets({RemoteRecord(i, 0, TRUE, FALSE) : i \in LocalIds})}
  \cup {[EmptyStore EXCEPT !.kvs = k] : k \in [Keys -> RemoteValues \cup {Absent}]}

\* The resource classes a store has content in.
Content(store) ==
  {c \in {"config", "script", "schedule", "webhook"} : store[c] # {}}
  \cup (IF KVSKeys(store.kvs) # {} THEN {"kvs"} ELSE {})

\* A folder with content in every place.
FullLocal ==
  [config |-> {"cloud", "sys", "wifi"},
   script |-> {LocalRecord(1, TRUE), LocalRecord(2, FALSE)},
   schedule |-> {LocalRecord(1, TRUE)},
   webhook |-> {LocalRecord(1, TRUE)},
   kvs |-> [k \in Keys |-> IF k = "api_endpoint" THEN "{{ .missing }}" ELSE "300"]]

\* A device with content in every place.
FullRemote ==
  [config |-> {},
   script |-> {RemoteRecord(1, 0, TRUE, TRUE)},
   schedule |-> {RemoteRecord(2, 0, TRUE, FALSE)},
   webhook |-> {RemoteRecord(1, 0, TRUE, FALSE)},
   kvs |-> [k \in Keys |-> IF k = "api_endpoint" THEN Absent ELSE "600"]]

\* The folder and the device a device task starts with: content in the same
\* class, or content in every class.
StoresInit ==
  \/ /\ local \in LocalStores
     /\ remote \in RemoteStores
     /\ Content(remote) \subseteq Content(local) \/ Content(local) \subseteq Content(remote)
  \/ local = FullLocal /\ remote = FullRemote

\* A device task about to run pushDeviceConfig; folder and device have content in
\* the same class.
PushInit ==
  /\ PullIdle
  /\ local \in LocalStores
  /\ remote \in RemoteStores
  /\ Content(remote) \subseteq Content(local) \/ Content(local) \subseteq Content(remote)
  /\ local0 = local
  /\ remote0 = remote
  /\ faultLimit = MaxFaults
  /\ hist = << >>
  /\ ppc = "start"
  /\ dryRun \in BOOLEAN
  /\ listed = {}
  /\ todo = {}
  /\ dels = {}
  /\ calls = << >>
  /\ created = {}
  /\ faults = << >>
  /\ stderr = << >>
  /\ pres = NoResult

PushNext ==
  \/ PushBegin
  \/ PushConfigs
  \/ \E class \in Classes : PushList(class)
  \/ \E class \in Classes : PushRecord(class)
  \/ \E class \in Classes : PushDelete(class)
  \/ PushKVSLoad
  \/ PushKVSSet
  \/ PushKVSDelete
  \/ PushAgain

SpecPush == PushInit /\ [][PushNext]_vars

PushOnceNext ==
  \/ PushBegin
  \/ PushConfigs
  \/ \E class \in Classes : PushList(class)
  \/ \E class \in Classes : PushRecord(class)
  \/ \E class \in Classes : PushDelete(class)
  \/ PushKVSLoad
  \/ PushKVSSet
  \/ PushKVSDelete

\* One run of pushDeviceConfig.
SpecPushOnce == PushInit /\ [][PushOnceNext]_vars

\* A device task about to run pushDeviceConfig, folder and device with content in
\* the same class; any number of its calls may fail.
PushFailingInit ==
  /\ PullIdle
  /\ local \in LocalStores
  /\ remote \in RemoteStores
  /\ Content(remote) \subseteq Content(local) \/ Content(local) \subseteq Content(remote)
  /\ local0 = local
  /\ remote0 = remote
  /\ faultLimit = MaxFailures
  /\ hist = << >>
  /\ ppc = "start"
  /\ dryRun \in BOOLEAN
  /\ listed = {}
  /\ todo = {}
  /\ dels = {}
  /\ calls = << >>
  /\ created = {}
  /\ faults = << >>
  /\ stderr = << >>
  /\ pres = NoResult

\* One run of pushDeviceConfig in which call after call may fail.
SpecPushFailing == PushFailingInit /\ [][PushOnceNext]_vars

\* A device task at the KVS section of pushDeviceConfig: any values file, a
\* kvs/data.json whose entries are templates or a plain string, and a device that
\* may hold a key.
RenderInit ==
  /\ TaskIdle
  /\ values \in ValuesFiles
  /\ \E k \in [Keys -> TemplateTexts \cup {"300", Absent}] :
       local = [EmptyStore EXCEPT !.kvs = k]
  /\ \E k \in [Keys -> {"600", Absent}] : remote = [EmptyStore EXCEPT !.kvs = k]
  /\ local0 = local
  /\ remote0 = remote
  /\ faultLimit = MaxFaults
  /\ hist = << >>
  /\ ppc = "kvs"
  /\ dryRun = FALSE
  /\ listed = {}
  /\ todo = {}
  /\ dels = {}
  /\ calls = << >>
  /\ created = {}
  /\ faults = << >>
  /\ stderr = << >>
  /\ pres = NoResult

RenderNext ==
  \/ PushKVSLoad
  \/ PushKVSSet
  \/ PushKVSDelete

SpecRender == RenderInit /\ [][RenderNext]_vars

\* ------------------------------------------- one device: pull, the resources

\* Keys of the device's Shelly.GetConfig reply.
DeviceComponents == {"cloud", "script:1", "sys", "wifi"}

\* strings.ReplaceAll(componentKey, ":", "-")
FileName(componentKey) == IF componentKey = "script:1" THEN "script-1" ELSE componentKey

\* Component keys the pull skips: cloud, and the script:<n> configs.
SkippedComponent(componentKey) ==
  componentKey = "cloud" \/ componentKey \in {"script:1"}

\* Ids in the order of a listing.
RECURSIVE Sorted(_)
Sorted(S) == IF S = {} THEN << >> ELSE <<Min(S)>> \o Sorted(S \ {Min(S)})

\* pullDeviceConfig returns.
PullReturn(res) ==
  /\ pres' = res
  /\ ppc' = "pulled"

\* The component configs of pullDeviceConfig: GetShellyConfig, then one
\* SaveComponentConfig per key that is not skipped (a map: any order).  Either
\* failure ends the device's pull with an error.
PullConfigs ==
  /\ ppc = "pull:config"
  /\ LET savable == {k \in DeviceComponents : ~SkippedComponent(k)}
     IN \E getOk \in BOOLEAN, failing \in savable \cup {""},
           before \in SUBSET savable :
          /\ (~getOk \/ failing # "" => MayFail)
          /\ (~getOk => failing = "" /\ before = {})
          /\ (getOk /\ failing = "" => before = savable)
          /\ failing \notin before
          /\ local' = [local EXCEPT !.config = @ \cup {FileName(k) : k \in before}]
          /\ calls' = Append(calls, Call("config", "Shelly.GetConfig", "", getOk))
          /\ faults' = IF ~getOk THEN Append(faults, "Shelly.GetConfig")
                       ELSE IF failing # "" THEN Append(faults, "SaveComponentConfig")
                       ELSE faults
          /\ IF ~getOk
               THEN PullReturn([NoResult EXCEPT !.Error = "failed to get shelly config"])
               ELSE IF failing # ""
                 THEN PullReturn([NoResult EXCEPT !.Error = "failed to save config"])
                 ELSE ppc' = Label("pull", "script") /\ UNCHANGED pres
  /\ stderr' = stderr \o Diagnostics("pull", NewFaults)
  /\ UNCHANGED <<remote, local0, remote0, faultLimit, hist, dryRun, listed, todo, dels, created>>
  /\ UNCHANGED <<pullVars, clientVars>>

\* The step that follows the pull of a class.
AfterPullClass(class) ==
  CASE class = "script" -> Label("pull", "schedule")
    [] class = "schedule" -> Label("pull", "webhook")
    [] class = "webhook" -> "pull:kvs"

\* A pull that gives up on the device when a listing fails.
ListErrorEndsPull(listOk) == ~listOk

\* The listing of a class failed and that ends the device's pull: never; the class
\* is skipped.
ListErrorIsFatal(listOk) == FALSE

\* A pull that makes the class folder a mirror of what it saved.
AfterSavesMirrored(files, deviceRecords, saved) ==
  {LocalRecord(r.ID, r.Enable) : r \in {x \in deviceRecords : x.ID \in saved}}

\* The files of a class after the saves of the device's records with these ids:
\* each save writes the file of its id, and no file is removed.
AfterSaves(files, deviceRecords, saved) ==
  {r \in files : r.ID \notin saved}
    \cup {LocalRecord(r.ID, r.Enable) : r \in {x \in deviceRecords : x.ID \in saved}}

\* The scripts (schedules, webhooks) of pullDeviceConfig: the listing, then for
\* each record GetScriptCode (scripts only) and the save; a record whose call or
\* save fails is skipped.  No local file is removed.
PullClass(class) ==
  /\ ppc = Label("pull", class)
  /\ \E listOk \in BOOLEAN, getFailed \in SUBSET Ids(remote[class]),
          saveFailed \in SUBSET Ids(remote[class]) :
       LET ids == IF listOk THEN Ids(remote[class]) ELSE {}
           saved == ids \ (getFailed \cup saveFailed)
           fetched == IF class = "script" THEN Sorted(ids) ELSE << >>
       IN /\ getFailed \cap saveFailed = {}
          /\ (class # "script" => getFailed = {})
          /\ (~listOk => getFailed = {} /\ saveFailed = {})
          /\ Len(faults) + (IF listOk THEN 0 ELSE 1) + Cardinality(getFailed)
               + Cardinality(saveFailed) <= faultLimit
          /\ local' = [local EXCEPT ![class] = AfterSaves(@, remote[class], saved)]
          /\ calls' = calls \o <<Call(class, Service(class) \o ".List", 0, listOk)>>
                            \o [i \in 1..Len(fetched) |->
                                  Call(class, "Script.GetCode", fetched[i],
                                       fetched[i] \notin getFailed)]
          /\ faults' = faults \o (IF listOk THEN << >> ELSE <<Service(class) \o ".List">>)
                              \o Repeat("Script.GetCode", Cardinality(getFailed))
                              \o Repeat(Label("Save", class), Cardinality(saveFailed))
          /\ IF ListErrorIsFatal(listOk)
               THEN PullReturn([NoResult EXCEPT !.Error = "failed to list"])
               ELSE ppc' = AfterPullClass(class) /\ UNCHANGED pres
  /\ stderr' = stderr \o Diagnostics("pull", NewFaults)
  /\ UNCHANGED <<remote, local0, remote0, faultLimit, hist, dryRun, listed, todo, dels, created>>
  /\ UNCHANGED <<pullVars, clientVars>>

\* The device of the single-task view in the manifest.
TaskDevice == 1

\* The end of pullDeviceConfig: GetComponents (a failure is a warning; the virtual
\* component files are not part of the folder modelled here), UpdateLastSync and
\* the success result.
PullComponents ==
  /\ ppc = "pull:components"
  /\ \E ok \in BOOLEAN :
       /\ (~ok => MayFail)
       /\ calls' = Append(calls, Call("component", "Shelly.GetComponents", "", ok))
       /\ faults' = IF ok THEN faults ELSE Append(faults, "Shelly.GetComponents")
  /\ manifest' = UpdateLastSync(manifest, TaskDevice, Now)
  /\ PullReturn([Success |-> TRUE, Error |-> "nil", Message |-> "saved"])
  /\ stderr' = stderr \o Diagnostics("pull", NewFaults)
  /\ UNCHANGED <<local, remote, local0, remote0, faultLimit, hist, dryRun, listed, todo, dels, created>>
  /\ UNCHANGED <<deviceFilter, devicesToPush, values, allDevices, templateContext>>
  /\ UNCHANGED <<dirty, opState, retErr, retResults, manifestFile, pc, dev, idx, snap,
                 results, groupErr, ctxCancelled, extCancel, dirs, wrote, remoteCalls,
                 allOk>>
  /\ UNCHANGED clientVars

\* A pull of the device is run after its push, the device untouched in between.
PullAfterPush ==
  /\ ppc = "done"
  /\ ppc' = "pull:config"
  /\ calls' = << >>
  /\ pres' = NoResult
  /\ UNCHANGED <<local, remote, local0, remote0, faultLimit, hist, dryRun, listed, todo, dels,
                 created, faults, stderr>>
  /\ UNCHANGED <<pullVars, clientVars>>

\* A device task about to push, or about to pull its resources.
SyncInit ==
  /\ PullIdle
  /\ StoresInit
  /\ local0 = local
  /\ remote0 = remote
  /\ faultLimit = MaxFaults
  /\ hist = << >>
  /\ ppc \in {"start", "pull:config"}
  /\ dryRun \in BOOLEAN
  /\ (ppc = "pull:config" => ~dryRun)
  /\ listed = {}
  /\ todo = {}
  /\ dels = {}
  /\ calls = << >>
  /\ created = {}
  /\ faults = << >>
  /\ stderr = << >>
  /\ pres = NoResult

SyncNext ==
  \/ PushBegin
  \/ PushConfigs
  \/ \E class \in Classes : PushList(class)
  \/ \E class \in Classes : PushRecord(class)
  \/ \E class \in Classes : PushDelete(class)
  \/ PushKVSLoad
  \/ PushKVSSet
  \/ PushKVSDelete
  \/ PullAfterPush
  \/ PullConfigs
  \/ \E class \in Classes : PullClass(class)
  \/ PullKVS
  \/ PullComponents

SpecSync == SyncInit /\ [][SyncNext]_vars

\* ------------------------------------------------------ properties: parallel pull

\* C1 -- failure isolation of the parallel pull.  Once PullFromDevices has returned
\* its result list: it returned a nil error; every device task ran to its end and
\* filled its own slot; a device whose own calls all succeeded reports Success; and
\* an error sits only in the slot of the device whose own call failed.  While the
\* run is in progress no task's failure cancels the context of its siblings.
PullFailureIsolation ==
  /\ (opState = "running" /\ ~extCancel => ~ctxCancelled)
  /\ (opState = "returned" /\ retResults =>
        /\ retErr = "nil"
        /\ Len(results) = NumDevices
        /\ \A d \in Devices :
             /\ pc[d] = "done"
             /\ results[d].DeviceID = d
             /\ (allOk[d] => results[d].Success)
             /\ (results[d].Success => results[d].Error = "nil")
             /\ (results[d].Error # "nil" => ~allOk[d]))

\* C1 witness: a run in which one device's GetDeviceInfo failed and another device
\* was pulled successfully.
PullFailureIsolationWitness ==
  /\ opState = "returned"
  /\ retResults
  /\ \E a, b \in Devices :
       /\ results[a].Error = "failed to get device info"
       /\ results[b].Success

\* C2 -- pre-flight abort.  With uncommitted changes in the working tree the pull
\* never starts a device task: PullFromDevices returns an error and no result list,
\* no RPC is issued, no device file or folder is written, and the manifest in
\* memory and on disk stays as it was.
PullDirtyAborts ==
  dirty =>
    /\ opState \in {"init", "returned"}
    /\ (opState = "returned" => retErr # "nil" /\ ~retResults)
    /\ \A d \in Devices :
         /\ pc[d] = "idle"
         /\ remoteCalls[d] = {}
         /\ wrote[d] = {}
    /\ manifest = InitialManifest
    /\ manifestFile = InitialManifest

\* C2 witness: PullFromDevices was called on a dirty tree and has returned.
PullDirtyAbortsWitness ==
  dirty /\ opState = "returned" /\ retErr = "cannot pull: uncommitted changes"

\* A task is between the read and the write of a read-modify-write of the device
\* list, or between the marshal and the file write of Save.
InRegistryWrite(d) == pc[d] \in {"AddDeviceWrite", "SaveWrite", "UpdateLastSyncWrite"}

\* C4 -- serialized registry writers: no two device tasks are at the same time
\* inside a read-modify-write of the in-memory device list or inside a Save of the
\* registry file.
RegistryWritesSerialized ==
  \A a, b \in Devices : a # b => ~(InRegistryWrite(a) /\ InRegistryWrite(b))

\* ------------------------------------------------------------ properties: KVS

Mutating(op) ==
  op \notin {"Script.List", "Schedule.List", "Webhook.List", "KVS.List", "KVS.GetMany"}

\* The device as it was when the push that has just returned started.
Before == IF Len(hist) <= 1 THEN remote0 ELSE hist[Len(hist) - 1]

\* A push that was not a dry run has gone through every section and returned.
PushCompleted == ppc = "done" /\ ~dryRun /\ pres.Success

\* Number of RPCs of the current push with this class, method and id.
Count(class, op, id) ==
  Cardinality({i \in 1..Len(calls) :
                 calls[i].class = class /\ calls[i].op = op /\ calls[i].id = id})

\* C5 -- dry run: with dryRun set, the push issues no RPC that changes the device
\* (it issues none at all) and the device stays as it was, whatever the folder and
\* the device hold.
DryRunNoRemoteMutation ==
  dryRun =>
    /\ \A i \in 1..Len(calls) : ~Mutating(calls[i].op)
    /\ calls = << >>
    /\ remote = remote0

\* C5 witness: a dry run has returned for a folder whose schedules and KVS a real
\* push would have written to the device.
DryRunNoRemoteMutationWitness ==
  /\ dryRun
  /\ ppc = "done"
  /\ pres.Message = "dry-run: would push all configurations"
  /\ \/ local.kvs["update_interval"] = "300" /\ remote.kvs["update_interval"] = "600"
     \/ local.schedule # {} /\ remote.schedule = {}

\* The records of a set that carry the given content.
WithContent(records, src, enable, running) ==
  {r \in records : r.Src = src /\ r.Enable = enable /\ r.Running = running}

\* C6 -- push idempotence: after two pushes in a row with no local edit and no
\* failed call, the device holds the same scripts, schedules and webhooks as after
\* the first push (same content, each as many times; the ids the device assigned
\* are not compared) and the same KVS entries.
PushIdempotent ==
  (ppc = "done" /\ ~dryRun /\ faults = << >> /\ Len(hist) >= 2) =>
    /\ hist[2].kvs = hist[1].kvs
    /\ \A c \in Classes : \A src \in {0} \cup LocalIds : \A enable, running \in BOOLEAN :
         Cardinality(WithContent(hist[2][c], src, enable, running))
           = Cardinality(WithContent(hist[1][c], src, enable, running))

\* C7 -- a created record adopts the returned id: when the push has returned, every
\* record it created on the device is stored in the folder under the id the create
\* call returned.
PushAdoptsCreatedId ==
  ppc = "done" =>
    \A cr \in created :
      /\ cr.id \in Ids(local[cr.class])
      /\ (cr.id # cr.localId => cr.localId \notin Ids(local[cr.class]))

PushDeletesRemoteOnlyScripts ==
  (PushCompleted /\ faults = << >>) =>
    \A r \in Before.script :
      r.ID \notin Ids(local.script) => r.ID \notin Ids(remote.script)

\* C10 -- KVS push: after a push with no failed call, whatever the local set
\* (empty or not), the device holds the rendered value of every local entry that
\* renders, and no key that has no local entry.
PushKVSMirrors ==
  (PushCompleted /\ faults = << >>) =>
    \A k \in Keys :
      /\ (local.kvs[k] # Absent /\ ~RenderKVSValue(local.kvs[k], TaskContext).err
            => remote.kvs[k] = RenderKVSValue(local.kvs[k], TaskContext).value)
      /\ (local.kvs[k] = Absent => remote.kvs[k] = Absent)

\* ------------------------------------------- properties: push, order and failures

\* The task is inside pushDeviceConfig, or has just returned from it.
Pushing ==
  ppc \in {"start", "configs", "kvs", "kvs:set", "kvs:del", "done"}
           \cup {Label(p, c) : p \in {"list", "loop", "del"}, c \in Classes}

\* Position of a class in the order Config, Script, Schedule, Webhook, KVS.
ClassRank(class) ==
  CASE class = "config" -> 1
    [] class = "script" -> 2
    [] class = "schedule" -> 3
    [] class = "webhook" -> 4
    [] class = "kvs" -> 5
    [] OTHER -> 6

\* The classes the push has issued an RPC for.
CalledClasses == {calls[i].class : i \in 1..Len(calls)}

\* C11 -- class order of a push: at every point of a push that is not a dry run,
\* the RPCs issued so far are grouped by class in the order Config, Script,
\* Schedule, Webhook, KVS: no RPC of a class follows an RPC of a later class,
\* whether or not calls for single records failed.
PushClassOrder ==
  (Pushing /\ ~dryRun) =>
    \A i, j \in 1..Len(calls) :
      i < j => ClassRank(calls[i].class) <= ClassRank(calls[j].class)

\* C11 witness: a push that issued RPCs for all five classes and returned, one
\* RPC for a record having failed on the way.
PushClassOrderWitness ==
  /\ PushCompleted
  /\ CalledClasses = {"config", "script", "schedule", "webhook", "kvs"}
  /\ \E i \in 1..Len(calls) : ~calls[i].ok /\ calls[i].class \in {"config", "script"}

\* The RPC at position i of the log is this method on this script and succeeded.
Succeeded(i, op, id) ==
  /\ i \in 1..Len(calls)
  /\ calls[i] = Call("script", op, id, TRUE)

\* The id of the script file whose loop iteration sent an RPC to script id.
LocalIdOf(id) ==
  IF \E cr \in created : cr.class = "script" /\ cr.id = id
    THEN (CHOOSE cr \in created : cr.class = "script" /\ cr.id = id).localId
    ELSE id

\* C12 -- script lifecycle on push: Script.PutCode goes to a script that was
\* running on the device only after a Script.Stop for it succeeded; every
\* Script.SetConfig directly follows a successful PutCode for the same script; and
\* every Script.Start directly follows a successful SetConfig for the same script
\* whose local metadata has enable = true.  A local script that the listing
\* reported as running gets its Stop.
ScriptLifecycleOrder ==
  (Pushing /\ ~dryRun) =>
    /\ \A i \in 1..Len(calls) :
         LET c == calls[i]
         IN /\ (c.op = "Script.PutCode" /\ c.id \in Ids(Before.script)
                  /\ Rec(Before.script, c.id).Running
                  => \E j \in 1..(i - 1) : Succeeded(j, "Script.Stop", c.id))
            /\ (c.op = "Script.SetConfig" => Succeeded(i - 1, "Script.PutCode", c.id))
            /\ (c.op = "Script.Start" =>
                  /\ Succeeded(i - 1, "Script.SetConfig", c.id)
                  /\ LocalIdOf(c.id) \in Ids(local.script)
                  /\ Rec(local.script, LocalIdOf(c.id)).Enable)
    /\ (PushCompleted /\ ~Failed("Script.List") /\ ~Failed("LoadScript")
           /\ ~Failed(Label("ListLocal", "script")) =>
          \A m \in local.script :
            (m.ID \in Ids(Before.script) /\ Rec(Before.script, m.ID).Running)
              => Count("script", "Script.Stop", m.ID) = 1)

\* C12 witness: a push stopped a running script, uploaded its code, set its
\* config and started it again, each call succeeding.
ScriptLifecycleOrderWitness ==
  /\ PushCompleted
  /\ \E i \in 1..Len(calls), id \in Ids(Before.script) :
       /\ Rec(Before.script, id).Running
       /\ Succeeded(i, "Script.Stop", id)
       /\ Succeeded(i + 1, "Script.PutCode", id)
       /\ Succeeded(i + 2, "Script.SetConfig", id)
       /\ Succeeded(i + 3, "Script.Start", id)

\* ------------------------------------------------- properties: push then pull

\* A pull of the device has returned, run after a push that was not a dry run, with
\* no failed call in either.
PulledAfterPush ==
  /\ ppc = "pulled"
  /\ Len(hist) = 1
  /\ ~dryRun
  /\ faults = << >>
  /\ pres.Success

\* C13 -- push-then-pull convergence: after a push and then a pull of the untouched
\* device, with no failed call, the folder holds exactly the scripts, schedules
\* and webhooks that were pushed, under the same ids.
PushPullConverges ==
  PulledAfterPush => \A c \in Classes : local[c] = local0[c]

\* ------------------------------------------- properties: pull, failure scopes

\* The entries of device d in a registry.
Entries(m, d) == {m[i] : i \in {j \in 1..Len(m) : m[j].DeviceID = d}}

\* C14 -- device-scoped failure on pull: a device task that ended because
\* GetDeviceInfo or the folder rename failed has written no file of the device,
\* has created or moved no folder, has issued no other RPC, has left the device's
\* registry entry in memory and on disk as it was, and reports Success = false
\* with that error in its own slot.
PullDeviceScopedFailure ==
  \A d \in Devices :
    (pc[d] = "done" /\ results[d].Error \in {"failed to get device info",
                                             "failed to rename device folder"}) =>
      /\ wrote[d] = {}
      /\ dirs[d] \subseteq {NewFolderName(RegistryName)}
      /\ remoteCalls[d] = {"Shelly.GetDeviceInfo"}
      /\ Entries(manifest, d) = {InitialManifest[d]}
      /\ Entries(manifestFile, d) = {InitialManifest[d]}
      /\ ~results[d].Success
      /\ results[d].DeviceID = d

\* C14 witness: one device's folder rename failed while a sibling was pulled and
\* wrote its files.
PullDeviceScopedFailureWitness ==
  /\ opState = "returned"
  /\ retResults
  /\ \E a, b \in Devices :
       /\ results[a].Error = "failed to rename device folder"
       /\ results[b].Success
       /\ wrote[b] # {}

\* The files of its device folder that the task of device d has written.
DeviceFiles(d) == {f \in wrote[d] : f # RegistryFile}

\* The folder the registry names for every device before the run.
OldFolder == NewFolderName(RegistryName)

\* C15 -- rename before write on pull: when a device reported a non-empty name
\* that differs from the registry's, then by the time any file of its folder is
\* written the old folder has been moved to the new name, the registry entry in
\* memory carries the new name and folder, the registry file has been saved by the
\* task, and every file written is in the new folder.
PullRenamesBeforeWrite ==
  \A d \in Devices :
    (dev[d].Name # RegistryName /\ DeviceFiles(d) # {}) =>
      /\ dev[d].Name # ""
      /\ dev[d].Folder = NewFolderName(dev[d].Name)
      /\ (dev[d].Folder # OldFolder => OldFolder \notin dirs[d])
      /\ dev[d].Folder \in dirs[d]
      /\ \A e \in Entries(manifest, d) :
           e.Name = dev[d].Name /\ e.Folder = dev[d].Folder
      /\ RegistryFile \in wrote[d]
      /\ \A f \in DeviceFiles(d) : f[1] = dev[d].Folder

\* C15 witness: a device whose folder existed was renamed and its metadata and
\* resource files were then written into the new folder.
PullRenamesBeforeWriteWitness ==
  \E d \in Devices :
    /\ dev[d].Name = "hall"
    /\ pc[d] = "done"
    /\ dirs[d] = {"hall"}
    /\ <<"hall", "device.yaml">> \in wrote[d]
    /\ <<"hall", "resources">> \in wrote[d]

\* The local records of a class that the device does not carry after the push:
\* config files not sent, records whose content or enable flag did not arrive,
\* KVS entries that render but were not set.
NotApplied(class) ==
  CASE class = "config" ->
         {f \in local.config : ~SkippedConfig(f) /\ ComponentName(f) \notin remote.config}
    [] class = "kvs" ->
         {k \in KVSKeys(local.kvs) :
            /\ ~RenderKVSValue(local.kvs[k], TaskContext).err
            /\ remote.kvs[k] # RenderKVSValue(local.kvs[k], TaskContext).value}
    [] OTHER ->
         {m \in local[class] :
            ~\E r \in remote[class] : r.Src = m.ID /\ r.Enable = m.Enable}

\* Failures that end the push or leave a whole class out: the folder check, the
\* listings of the folder, the load of kvs.json.
ClassFaults ==
  {"DeviceExists", "ListComponentConfigs", "LoadKVS"}
    \cup {Label("ListLocal", c) : c \in Classes}

\* C16 -- record-scoped failure on push: a push in which only calls for single
\* records failed (load, parse, render or RPC) goes through every class and
\* succeeds: each of scripts, schedules and webhooks is listed once, the KVS
\* section runs when the folder has entries, and the records that did not reach
\* the device are no more than the calls that failed, one record per failure.
PushRecordScopedFailure ==
  (ppc = "done" /\ ~dryRun /\ \A i \in 1..Len(faults) : faults[i] \notin ClassFaults) =>
    /\ pres.Success
    /\ \A c \in Classes : Count(c, Service(c) \o ".List", 0) = 1
    /\ (KVSKeys(local.kvs) # {} => \E i \in 1..Len(calls) : calls[i].class = "kvs")
    /\ Cardinality(NotApplied("config")) + Cardinality(NotApplied("script"))
         + Cardinality(NotApplied("schedule")) + Cardinality(NotApplied("webhook"))
         + Cardinality(NotApplied("kvs")) <= Len(faults)

\* C16 witness: the upload of the first script failed; the second script, the
\* schedule, the webhook, the config files and the KVS entry were still pushed.
PushRecordScopedFailureWitness ==
  /\ ppc = "done"
  /\ ~dryRun
  /\ faults = <<"Script.PutCode">>
  /\ local = FullLocal
  /\ Cardinality(NotApplied("script")) = 1
  /\ NotApplied("config") = {}
  /\ NotApplied("schedule") = {}
  /\ NotApplied("webhook") = {}
  /\ remote.kvs["update_interval"] = "300"
  /\ \E i \in 1..Len(calls) : calls[i].op = "Script.SetConfig" /\ calls[i].ok

\* The device's records of a class that the folder does not hold after the pull.
NotSaved(class) ==
  IF class = "config"
    THEN {k \in DeviceComponents : ~SkippedComponent(k) /\ FileName(k) \notin local.config}
    ELSE {r \in remote[class] : LocalRecord(r.ID, r.Enable) \notin local[class]}

\* Failures to write the file of one record.
SaveFaults == {"SaveComponentConfig"} \cup {Label("Save", c) : c \in Classes}

\* The pull went through every class: the three listings, the KVS and the
\* components.
PulledEveryClass ==
  /\ \A c \in Classes : Count(c, Service(c) \o ".List", 0) = 1
  /\ \E i \in 1..Len(calls) : calls[i].class = "kvs"
  /\ \E i \in 1..Len(calls) : calls[i].op = "Shelly.GetComponents"

\* C17 -- record-scoped failure on pull: a pull in which only writes of single
\* record files failed (a component config, a script, a schedule or a webhook)
\* goes through every class and succeeds, and the records it did not save are no
\* more than the writes that failed.
PullRecordScopedFailure ==
  (ppc = "pulled" /\ \A i \in 1..Len(faults) : faults[i] \in SaveFaults) =>
    /\ pres.Success
    /\ PulledEveryClass
    /\ Cardinality(NotSaved("config")) + Cardinality(NotSaved("script"))
         + Cardinality(NotSaved("schedule")) + Cardinality(NotSaved("webhook"))
         <= Len(faults)

\* The pull's call of this method failed.
CallFailed(op) == \E i \in 1..Len(calls) : calls[i].op = op /\ ~calls[i].ok

\* C18 -- class-scoped warning on pull: a pull that got past the component
\* configs returns Success = true and has gone through every class, whichever
\* listing failed.  A class whose listing failed is skipped (its files are left
\* as they were); a class whose listing and record calls succeeded is saved; the
\* KVS file is left as it was when GetKVS failed and is the merge otherwise.
PullClassScopedWarning ==
  (ppc = "pulled" /\ ~Failed("Shelly.GetConfig") /\ ~Failed("SaveComponentConfig")) =>
    /\ pres.Success
    /\ pres.Error = "nil"
    /\ PulledEveryClass
    /\ \A c \in Classes :
         /\ (CallFailed(Service(c) \o ".List") => local[c] = local0[c])
         /\ (~CallFailed(Service(c) \o ".List") /\ ~CallFailed("Script.GetCode")
               /\ ~Failed(Label("Save", c)) => NotSaved(c) = {})
    /\ (CallFailed("KVS.List") \/ CallFailed("KVS.GetMany") => local.kvs = local0.kvs)
    /\ (~CallFailed("KVS.List") /\ ~CallFailed("KVS.GetMany") /\ ~Failed("LoadKVS")
          /\ ~Failed("SaveKVS") /\ KVSKeys(remote.kvs) # {}
          => local.kvs = MergeKVS(local0.kvs, remote.kvs))

\* C18 witness: the listing of the scripts failed; the schedule of the device was
\* still saved and the pull succeeded.
PullClassScopedWarningWitness ==
  /\ ppc = "pulled"
  /\ pres.Success
  /\ CallFailed("Script.List")
  /\ remote.script # {}
  /\ local.script = local0.script
  /\ \E r \in remote.schedule :
       /\ LocalRecord(r.ID, r.Enable) \in local.schedule
       /\ LocalRecord(r.ID, r.Enable) \notin local0.schedule

\* ------------------------------------------------ properties: device groups

\* C19 -- cancellation of the group context: in PullFromDevices and in
\* PushToDevices the context handed to the device tasks is cancelled only when
\* the caller has cancelled its own context or when the operation has returned
\* (all tasks finished); the errgroup never records an error, so no task's
\* failure cancels the context of a sibling.
GroupContextCancellation ==
  /\ (ctxCancelled => extCancel \/ opState = "returned")
  /\ groupErr = "nil"
  /\ (opState = "returned" /\ retResults =>
        /\ retErr = "nil"
        /\ \A d \in Devices : pc[d] \in {"idle", "done"})

\* C19 witness: during a push one task has ended with an error while a sibling is
\* still inside pushDeviceConfig, its context not cancelled.
GroupContextCancellationWitness ==
  /\ opState = "pushing"
  /\ ~ctxCancelled
  /\ \E a, b \in Devices :
       /\ pc[a] = "done"
       /\ results[Slot(a)].Error = "device folder does not exist"
       /\ pc[b] = "push:sections"

\* Strings that differ in case only.
CaseClasses ==
  {{"kitchen", "Kitchen", "KITCHEN"}, {"hall"}, {"attic"}}
    \cup {{"shelly-" \o ToString(d), "Shelly-" \o ToString(d), "SHELLY-" \o ToString(d)} :
            d \in Devices}

\* The two strings are equal up to case.
EqualFold(a, b) == a = b \/ \E C \in CaseClasses : a \in C /\ b \in C

\* The filter selects the device: one of its entries equals the device's id or
\* its name up to case.
Selected(device, filter) ==
  \E f \in filter :
    EqualFold(f, DeviceIDText(device.DeviceID)) \/ EqualFold(f, device.Name)

\* C20 -- device selection of a push: with a non-empty filter the devices pushed
\* to are exactly the registry devices whose id or name equals a filter entry up
\* to case, in registry order (possibly none); with an empty filter they are the
\* whole registry.  Each selected device gets a task and a result slot, no other
\* device does.
PushDeviceSelection ==
  opState = "pushing" =>
    /\ devicesToPush =
         (IF deviceFilter = {} THEN manifest
          ELSE SelectSeq(manifest, LAMBDA device : Selected(device, deviceFilter)))
    /\ Len(results) = Len(devicesToPush)
    /\ \A d \in Devices :
         pc[d] # "idle" <=> (deviceFilter = {} \/ Selected(manifest[d], deviceFilter))

\* C20 witness: the filter KITCHEN selected the device named Kitchen and left
\* out the one named hall.
PushDeviceSelectionWitness ==
  /\ opState = "pushing"
  /\ deviceFilter = {"KITCHEN"}
  /\ Len(devicesToPush) = 1
  /\ devicesToPush[1].Name = "Kitchen"
  /\ \E d \in Devices : manifest[d].Name = "hall" /\ pc[d] = "idle"

\* ------------------------------------------------------ properties: templates

\* The key a template refers to has no entry in the context.
ReferencesAbsent(tmplStr, context) ==
  /\ IsString(tmplStr)
  /\ IsTemplated(tmplStr)
  /\ ParseTemplate(tmplStr).fn # "error"
  /\ Kind(context, ParseTemplate(tmplStr).path) = "none"

\* KVS.Set was issued for the key.
SetIssued(k) ==
  \E i \in 1..Len(calls) : calls[i].op = "KVS.Set" /\ calls[i].id = k

\* The loop over the local entries has dealt with the key.
Visited(k) ==
  ppc \in {"kvs:set", "kvs:del", "done"} /\ k \notin todo /\ ~Failed("LoadKVS")

\* C21: a template that refers to a key absent from the context (a root value, a
\* nested value, a device field or a device id of the devices map) fails to
\* render, and the KVS key is not written to the device.
RenderMissingKeyIsError ==
  \A k \in Keys :
    ReferencesAbsent(local.kvs[k], TaskContext) /\ Visited(k)
      => /\ RenderKVSValue(local.kvs[k], TaskContext).err
         /\ ~SetIssued(k)
         /\ remote.kvs[k] = remote0.kvs[k]

\* The template of the local entry fails to render in the task's context.
RenderFails(k) == RenderKVSValue(local.kvs[k], TaskContext).err

\* KVS.Delete was issued for the key.
DeleteIssued(k) ==
  \E i \in 1..Len(calls) : calls[i].op = "KVS.Delete" /\ calls[i].id = k

\* C38: a local KVS key whose template fails to render is skipped for that push:
\* no KVS.Set and no KVS.Delete is issued for it, the device keeps its previous
\* value for the key, and KVS.Set is still issued for every other local key.
RenderFailureSkipsKey ==
  ppc = "done" /\ ~Failed("LoadKVS") =>
    \A k \in Keys :
      RenderFails(k) =>
        /\ ~SetIssued(k)
        /\ ~DeleteIssued(k)
        /\ remote.kvs[k] = remote0.kvs[k]
        /\ \A other \in KVSKeys(local.kvs) : ~RenderFails(other) => SetIssued(other)

\* C38 witness: one entry failed to render and the device kept its value for that
\* key, while the other entry was written.
RenderFailureSkipsKeyWitness ==
  /\ ppc = "done"
  /\ ~Failed("LoadKVS")
  /\ \E k, other \in Keys :
       /\ RenderFails(k)
       /\ remote0.kvs[k] = "600"
       /\ remote.kvs[k] = "600"
       /\ other # k
       /\ ~RenderFails(other)
       /\ SetIssued(other)
       /\ remote.kvs[other] # remote0.kvs[other]

\* ------------------------------------------------- properties: push outcome

\* The two failures that end a push of a device.
PushFatal == Failed("DeviceExists") \/ Failed("ListComponentConfigs")

\* C39: a push without dry run reports Success = true whenever the device folder
\* exists and its component configs can be listed, whatever record operations or
\* remote listings failed; it reports a failure only for a missing folder or an
\* unreadable configs directory, with that error.
PushSucceedsUnlessFatal ==
  ppc = "done" /\ ~dryRun =>
    /\ pres.Success <=> ~PushFatal
    /\ ~pres.Success =>
         pres.Error \in {"device folder does not exist", "failed to list component configs"}
    /\ pres.Success => pres.Error = "nil"

\* C39 witness: a push in which every remote call failed, a SetConfig or a record
\* operation and the listings among them, reported success.
PushSucceedsUnlessFatalWitness ==
  /\ ppc = "done"
  /\ ~dryRun
  /\ pres.Success
  /\ Len(calls) >= 4
  /\ \A i \in 1..Len(calls) : ~calls[i].ok

\* ---------------------------------------------------- properties: diagnostics

\* Failures of the storage, not of a remote call.
LocalFailures ==
  {"LoadKVS", "SaveKVS", "DeviceExists", "ListComponentConfigs", "LoadComponentConfig",
   "LoadScript", "SaveComponentConfig"}
    \cup {Label("ListLocal", c) : c \in Classes}
    \cup {Label("Save", c) : c \in Classes}

\* How often the entry occurs in the sequence.
Occurrences(seq, x) == Cardinality({i \in 1..Len(seq) : seq[i] = x})

\* The failed remote call is in the result's error or has its diagnostic.
Reported(name) ==
  \/ Fatal(name) /\ pres.Error # "nil"
  \/ Occurrences(stderr, name) >= Occurrences(faults, name)

\* C22: when a device task (pull or push) returns, every remote call that failed
\* is in the error of the device's result or has a diagnostic on stderr.
NoRemoteErrorSwallowed ==
  ppc \in {"done", "pulled"} =>
    \A i \in 1..Len(faults) : faults[i] \notin LocalFailures => Reported(faults[i])

\* -------------------------------------------------- properties: result slots

\* The operation under way is a push (PushToDevices has built allDevices).
IsPush == DOMAIN allDevices # {}

\* The devices the operation targets, in order: the selection of a push, the
\* registry of a pull.
Targets == IF IsPush THEN devicesToPush ELSE manifest

\* C23 -- one outcome record per targeted device: from the spawn loop on, the
\* result list has the length of the targeted device list; a slot is filled
\* exactly when the task of the device at that position has finished, and then
\* carries that device's DeviceID (no task writes another slot); when the
\* operation returns its results every slot is filled.
OneRecordPerDevice ==
  (opState \in {"running", "pushing"} \/ (opState = "returned" /\ retResults)) =>
    /\ Len(results) = Len(Targets)
    /\ \A i \in 1..Len(results) :
         IF pc[Targets[i].DeviceID] = "done"
           THEN results[i].DeviceID = Targets[i].DeviceID
           ELSE results[i] = ZeroResult
    /\ (opState = "returned" =>
          \A i \in 1..Len(results) : results[i].DeviceID = Targets[i].DeviceID)

\* C23 witness: a push of the second device alone has returned one record, that
\* of the second device, while the registry holds more devices.
OneRecordPerDeviceWitness ==
  /\ opState = "returned"
  /\ retResults
  /\ IsPush
  /\ Len(manifest) > 1
  /\ Len(results) = 1
  /\ results[1].DeviceID = 2
  /\ results[1].Success

\* ------------------------------------------------ properties: push messages

\* What a push of the folder would send: per class, the records it holds (config
\* files but cloud and the script configs).
WouldPush(store) ==
  [config |-> Cardinality({f \in store.config : ~SkippedConfig(f)}),
   script |-> Cardinality(store.script),
   schedule |-> Cardinality(store.schedule),
   webhook |-> Cardinality(store.webhook),
   kvs |-> Cardinality(KVSKeys(store.kvs))]

\* C24: a dry-run push of a folder that holds something reports the per-class
\* counts of what would be pushed, in the form a real push reports its counts.
DryRunIntentSummary ==
  (ppc = "done" /\ dryRun /\ pres.Success /\ Len(MsgParts(WouldPush(local))) > 0) =>
    \E verb \in {"pushed ", "dry-run: would push "} :
      pres.Message = verb \o Join(MsgParts(WouldPush(local)))

\* --------------------------------------------- properties: config discovery

\* C25: a pull that got the component configs has called Shelly.ListMethods and
\* then, for every component it stored as a file, that component's GetConfig.
PullDiscoversConfigs ==
  (ppc = "pulled" /\ pres.Success) =>
    \E i \in 1..Len(calls) :
      /\ calls[i].op = "Shelly.ListMethods"
      /\ \A k \in DeviceComponents :
           FileName(k) \in local.config /\ ~SkippedComponent(k) =>
             \E j \in (i + 1)..Len(calls) :
               calls[j].op = ComponentName(FileName(k)) \o ".GetConfig"

\* ------------------------------------------ properties: cloud and script configs

\* The pull is past the component configs.
PulledConfigs ==
  \/ ppc \in {"pull:script", "pull:schedule", "pull:webhook", "pull:kvs", "pull:components"}
  \/ ppc = "pulled" /\ pres.Success

\* C26 -- cloud and script configuration stay out of the Component Config
\* class: a pull adds to configs/ one file per component of the device's reply
\* other than cloud and script:<n>, and nothing else; a push issues no SetConfig
\* of the config class for the files cloud and script-<n>, that is no
\* Cloud.SetConfig and no Script.SetConfig.
CloudAndScriptsNotInConfigs ==
  /\ (PulledConfigs => local.config = local0.config \cup {"sys", "wifi"})
  /\ \A i \in 1..Len(calls) :
       calls[i].class = "config" => calls[i].op \notin {"Cloud.SetConfig", "Script.SetConfig"}

\* C26 witness: the folder held the files script-1 and sys; the push sent
\* Sys.SetConfig only, and the pull that followed added wifi, not cloud.
CloudAndScriptsNotInConfigsWitness ==
  /\ ppc = "pulled"
  /\ pres.Success
  /\ hist # << >>
  /\ local0.config = {"script-1", "sys"}
  /\ remote.config = {"Sys"}
  /\ local.config = {"script-1", "sys", "wifi"}

\* ------------------------------------------------ properties: device folders

\* C27 -- no resource operation without the device folder: a file of a device
\* (any but the registry file) is written into the device's current folder, which
\* exists by then (a pull creates it, after the rename, before it writes); a
\* pushed device whose folder is missing gets no remote call, no file access and
\* no template context, and its task ends with the error "device folder does not
\* exist".
NoOperationWithoutFolder ==
  \A d \in Devices :
    /\ \A w \in wrote[d] \ {RegistryFile} : w[1] = dev[d].Folder /\ w[1] \in dirs[d]
    /\ (IsPush /\ Slot(d) # 0 /\ dev[d].Folder \notin dirs[d] =>
          /\ pc[d] \in {"push:start", "done"}
          /\ remoteCalls[d] = {}
          /\ wrote[d] = {}
          /\ templateContext[d] = {}
          /\ (pc[d] = "done" =>
                /\ ~results[Slot(d)].Success
                /\ results[Slot(d)].Error = "device folder does not exist"))

\* C27 witness: the push of a device without folder has ended with the error and
\* without a call, while a sibling with its folder has issued calls.
NoOperationWithoutFolderWitness ==
  /\ IsPush
  /\ \E a, b \in Devices :
       /\ Slot(a) # 0
       /\ dev[a].Folder \notin dirs[a]
       /\ pc[a] = "done"
       /\ results[Slot(a)].Error = "device folder does not exist"
       /\ remoteCalls[a] = {}
       /\ Slot(b) # 0
       /\ remoteCalls[b] # {}

\* ------------------------------------------- properties: template context

\* The identity of a registry entry as entries of a context under the path.
Identity(path, device) ==
  { <<path \o <<"device_id">>, DeviceIDText(device.DeviceID)>>,
    <<path \o <<"name">>, device.Name>>,
    <<path \o <<"folder">>, device.Folder>> }

\* The entries of a context under a root key.
Under(context, key) == {e \in context : e[1][1] = key}

\* The task of the device has built its template context; a dry run returns
\* before it builds one.
HasContext(d) ==
  pc[d] = "push:sections" \/ (pc[d] = "done" /\ ~dryRun /\ results[Slot(d)].Success)

\* C28 -- the template context of a pushed device: under devices it holds the
\* identity of every device of the registry, keyed by device id, whether the
\* filter selected the device or not, and nothing else; under device it holds
\* the identity of the device being pushed and nothing else.
ContextHoldsRegistry ==
  \A d \in Devices :
    HasContext(d) =>
      /\ Under(templateContext[d], "devices") =
           UNION {Identity(<<"devices", DeviceIDText(manifest[i].DeviceID)>>, manifest[i]) :
                    i \in 1..Len(manifest)}
      /\ Under(templateContext[d], "device") = Identity(<<"device">>, manifest[d])

\* C28 witness: the filter selected one device; its context holds the name of a
\* device that was not selected, and its own name under device although the
\* values file has a device key.
ContextHoldsRegistryWitness ==
  \E d, e \in Devices :
    /\ Len(devicesToPush) = 1
    /\ Slot(d) = 1
    /\ Slot(e) = 0
    /\ pc[d] = "done"
    /\ results[1].Success
    /\ <<<<"device">>, "mine">> \in values
    /\ manifest[e].Name # manifest[d].Name
    /\ <<<<"devices", DeviceIDText(e), "name">>, manifest[e].Name>> \in templateContext[d]
    /\ <<<<"device", "name">>, manifest[d].Name>> \in templateContext[d]

\* ------------------------------------------------- client: GetScriptCode

\* Requests one call of the client may issue.
MaxCalls == 3

\* The data of one Script.GetCode reply.
Chunks == {<< >>, <<"a">>, <<"b">>, <<"a", "b">>}

\* The left field of one Script.GetCode reply.
Lefts == -1..2

\* The first request carries no offset.
NoOffset == -1

\* An offset that restarts with every chunk.
NextOffsetOfChunk(offset, data) == Len(data)

\* offset += len(response.Data)
NextOffset(offset, data) == offset + Len(data)

\* GetScriptCode up to its loop: the first Script.GetCode call and its reply.
GetScriptCodeCall ==
  /\ scriptCode.pc = "idle"
  /\ \E ok, parsed \in BOOLEAN, data \in Chunks, left \in Lefts :
       /\ (~ok => parsed)
       /\ (~ok \/ ~parsed => data = << >> /\ left = 0)
       /\ scriptCode' =
            IF ~ok
              THEN [scriptCode EXCEPT !.pc = "returned", !.requests = <<NoOffset>>,
                                      !.err = "call failed"]
            ELSE IF ~parsed
              THEN [scriptCode EXCEPT !.pc = "returned", !.requests = <<NoOffset>>,
                                      !.err = "failed to unmarshal script code response"]
            ELSE [pc |-> "loop", fullCode |-> data, offset |-> NextOffset(0, data),
                  left |-> left, requests |-> <<NoOffset>>,
                  replies |-> <<[data |-> data, left |-> left]>>, beyond |-> 0,
                  err |-> "nil"]
  /\ UNCHANGED <<pullVars, devVars, components, lastCall, componentConfig>>

\* One test of the loop condition, and if it holds one iteration: the request at
\* the current offset and its reply, appended to fullCode.
GetScriptCodeLoop ==
  /\ scriptCode.pc = "loop"
  /\ IF scriptCode.left > 0
       THEN /\ Len(scriptCode.requests) < MaxCalls
            /\ \E ok, parsed \in BOOLEAN, data \in Chunks, left \in Lefts :
                 /\ (~ok => parsed)
                 /\ (~ok \/ ~parsed => data = << >> /\ left = 0)
                 /\ scriptCode' =
                      LET sent == Append(scriptCode.requests, scriptCode.offset)
                      IN IF ~ok
                           THEN [scriptCode EXCEPT
                                   !.pc = "returned", !.requests = sent,
                                   !.err = "failed to get remaining script data"]
                         ELSE IF ~parsed
                           THEN [scriptCode EXCEPT
                                   !.pc = "returned", !.requests = sent,
                                   !.err = "failed to unmarshal chunk"]
                         ELSE [scriptCode EXCEPT
                                 !.fullCode = @ \o data,
                                 !.offset = NextOffset(@, data),
                                 !.left = left,
                                 !.requests = sent,
                                 !.replies = Append(@, [data |-> data, left |-> left])]
       ELSE scriptCode' = [scriptCode EXCEPT !.pc = "returned"]
  /\ UNCHANGED <<pullVars, devVars, components, lastCall, componentConfig>>

\* One call of GetScriptCode against a device that may answer anything.
ClientInit == PullIdle /\ DevIdle

ScriptCodeNext == GetScriptCodeCall \/ GetScriptCodeLoop

SpecScriptCode == ClientInit /\ [][ScriptCodeNext]_vars

\* An iteration of the same loop after the first MaxCalls requests: the loop has
\* no bound on its iterations.  The record keeps the first MaxCalls requests and
\* replies and the code they brought, and of the later iterations only that they
\* happened (beyond, 1 and 2 in turn) and the left of the last reply.
GetScriptCodeLoopBeyond ==
  /\ scriptCode.pc = "loop"
  /\ scriptCode.left > 0
  /\ Len(scriptCode.requests) = MaxCalls
  /\ \E ok, parsed \in BOOLEAN, data \in Chunks, left \in Lefts :
       /\ (~ok => parsed)
       /\ (~ok \/ ~parsed => data = << >> /\ left = 0)
       /\ scriptCode' =
            LET later == IF scriptCode.beyond = 1 THEN 2 ELSE 1
            IN IF ~ok
                 THEN [scriptCode EXCEPT
                         !.pc = "returned", !.beyond = later,
                         !.err = "failed to get remaining script data"]
               ELSE IF ~parsed
                 THEN [scriptCode EXCEPT
                         !.pc = "returned", !.beyond = later,
                         !.err = "failed to unmarshal chunk"]
               ELSE [scriptCode EXCEPT !.left = left, !.beyond = later]
  /\ UNCHANGED <<pullVars, devVars, components, lastCall, componentConfig>>

ScriptCodeRunNext == ScriptCodeNext \/ GetScriptCodeLoopBeyond

\* One call of GetScriptCode, each request of which is answered; the call goes on
\* as long as it can.
SpecScriptCodeRun ==
  ClientInit /\ [][ScriptCodeRunNext]_vars /\ WF_vars(ScriptCodeRunNext)

\* --------------------------------------------- properties: GetScriptCode

\* The data of the replies, one after the other.
RECURSIVE Concat(_)
Concat(replies) ==
  IF replies = << >> THEN << >>
  ELSE Concat(SubSeq(replies, 1, Len(replies) - 1)) \o replies[Len(replies)].data

\* C29 -- chunked script retrieval: the first request carries no offset and
\* every later one the total length of the data received before it; a request
\* follows a reply exactly when that reply's left is above zero; a call that
\* returns without error returns the data of all replies, concatenated in
\* request order; a request that failed makes the call return an error.
ChunkedRetrieval ==
  LET r == scriptCode
      n == Len(r.replies)
  IN /\ \A i \in 1..Len(r.requests) :
          r.requests[i] = IF i = 1 THEN NoOffset
                          ELSE Len(Concat(SubSeq(r.replies, 1, i - 1)))
     /\ \A i \in 1..(n - 1) : r.replies[i].left > 0
     /\ (r.pc = "returned" /\ r.err = "nil" =>
           /\ r.fullCode = Concat(r.replies)
           /\ Len(r.requests) = n
           /\ r.replies[n].left <= 0)
     /\ (r.pc = "returned" /\ Len(r.requests) > n => r.err # "nil")

\* C29 witness: the code came in three replies with data in each.
ChunkedRetrievalWitness ==
  /\ scriptCode.pc = "returned"
  /\ scriptCode.err = "nil"
  /\ Len(scriptCode.replies) = 3
  /\ \A i \in 1..3 : scriptCode.replies[i].data # << >>
  /\ scriptCode.fullCode = <<"a", "a", "b", "b">>

\* C31: GetScriptCode terminates against any device whose calls return, also
\* one that answers with empty data and a left above zero: every call returns.
ScriptCodeTerminates == <>(scriptCode.pc = "returned")

\* ------------------------------------------------- client: GetComponents

\* Components a device holds, and the largest page it sends.
MaxItems == 2

\* The components 1..n from position from to position to.
Range(from, to) == [i \in 1..(IF to >= from THEN to - from + 1 ELSE 0) |-> from + i - 1]

\* Devices: one that holds the components 1..n and answers a request at an
\* offset with the next page of its list and the total n ("paged"), and one that
\* answers anything ("any").
Remotes ==
  {[kind |-> "paged", n |-> n, page |-> p] : n \in 0..MaxItems, p \in 1..MaxItems}
    \cup {[kind |-> "any", n |-> 0, page |-> 0]}

\* Pages of a device that answers anything: up to two components, in any order,
\* possibly the same one twice.
AnyPages ==
  {<< >>} \cup {<<i>> : i \in 1..MaxItems} \cup {<<i, j>> : i \in 1..MaxItems, j \in 1..MaxItems}

\* The replies the device may give to a request at the offset, the call having
\* received so many items before.  A device that answers anything sends any page
\* and a total of zero, of what it has sent so far, or of one more.
Replies(peer, offset, received) ==
  IF peer.kind = "paged"
    THEN {[components |-> Range(offset + 1, IF offset + peer.page < peer.n
                                              THEN offset + peer.page ELSE peer.n),
           total |-> peer.n]}
    ELSE UNION {{[components |-> page, total |-> t] :
                   t \in {0, received + Len(page), received + Len(page) + 1}} :
                  page \in AnyPages}

\* GetComponents is called on a device.
GetComponentsStart ==
  /\ components.pc = "idle"
  /\ \E peer \in Remotes :
       components' = [components EXCEPT !.pc = "loop", !.remote = peer]
  /\ UNCHANGED <<pullVars, devVars, scriptCode, lastCall, componentConfig>>

\* The loop of GetComponents ends after this page: the items so far reach the
\* advertised total, or the page was empty.
Stops(count, total, pageLen) == count >= total \/ pageLen = 0

\* One iteration of the loop: the request at the current offset, the reply
\* appended, the two exits.  The first MaxCalls iterations are recorded in full.
GetComponentsPage ==
  /\ components.pc = "loop"
  /\ Len(components.requests) < MaxCalls
  /\ \E ok, parsed \in BOOLEAN,
          reply \in Replies(components.remote, components.offset,
                            Len(components.allComponents)) :
       /\ (~ok => parsed)
       /\ (components.remote.kind = "paged" => ok /\ parsed)
       /\ components' =
            LET sent == Append(components.requests, components.offset)
                all == components.allComponents \o reply.components
            IN IF ~ok
                 THEN [components EXCEPT !.pc = "returned", !.requests = sent,
                                         !.allComponents = << >>, !.err = "call failed"]
               ELSE IF ~parsed
                 THEN [components EXCEPT !.pc = "returned", !.requests = sent,
                                         !.allComponents = << >>,
                                         !.err = "failed to unmarshal components"]
               ELSE [components EXCEPT
                       !.pc = IF Stops(Len(all), reply.total, Len(reply.components))
                                THEN "returned" ELSE "loop",
                       !.allComponents = all,
                       !.offset = IF Len(all) >= reply.total
                                    THEN @ ELSE @ + Len(reply.components),
                       !.requests = sent,
                       !.replies = Append(@, reply)]
  /\ UNCHANGED <<pullVars, devVars, scriptCode, lastCall, componentConfig>>

\* An iteration of the same loop after the first MaxCalls: the loop has no bound
\* on its iterations.  The record keeps the first MaxCalls requests, replies and
\* items, and of the later iterations only that they happened (beyond, 1 and 2
\* in turn); the reply is taken relative to the items recorded.
GetComponentsPageBeyond ==
  /\ components.pc = "loop"
  /\ Len(components.requests) = MaxCalls
  /\ \E ok, parsed \in BOOLEAN,
          reply \in Replies(components.remote, components.offset,
                            Len(components.allComponents)) :
       /\ (~ok => parsed)
       /\ (components.remote.kind = "paged" => ok /\ parsed)
       /\ components' =
            LET count == Len(components.allComponents) + Len(reply.components)
                later == IF components.beyond = 1 THEN 2 ELSE 1
            IN IF ~ok
                 THEN [components EXCEPT !.pc = "returned", !.beyond = later,
                                         !.allComponents = << >>, !.err = "call failed"]
               ELSE IF ~parsed
                 THEN [components EXCEPT !.pc = "returned", !.beyond = later,
                                         !.allComponents = << >>,
                                         !.err = "failed to unmarshal components"]
               ELSE [components EXCEPT
                       !.pc = IF Stops(count, reply.total, Len(reply.components))
                                THEN "returned" ELSE "loop",
                       !.beyond = later]
  /\ UNCHANGED <<pullVars, devVars, scriptCode, lastCall, componentConfig>>

ComponentsNext ==
  GetComponentsStart \/ GetComponentsPage \/ GetComponentsPageBeyond

\* One call of GetComponents; the call goes on as long as it can.
SpecComponents == ClientInit /\ [][ComponentsNext]_vars /\ WF_vars(ComponentsNext)

\* --------------------------------------------- properties: GetComponents

\* The items of the first n replies, one page after the other.
RECURSIVE Received(_, _)
Received(replies, n) ==
  IF n = 0 THEN << >> ELSE Received(replies, n - 1) \o replies[n].components

\* After the n-th reply the count has reached the advertised total or the page
\* was empty.
StopAfter(replies, n) ==
  \/ Len(Received(replies, n)) >= replies[n].total
  \/ replies[n].components = << >>

\* The loop asks for a further page only while neither exit condition holds, and
\* returns at the first reply where one holds; against a device that pages its
\* list, every request is at the offset of the items received before it and the
\* call returns the device's components, each once, in order.
PaginationComplete ==
  LET c == components
      n == Len(c.replies)
  IN /\ \A i \in 1..(n - 1) : ~StopAfter(c.replies, i)
     /\ (c.pc = "returned" /\ c.err = "nil" /\ c.beyond = 0 =>
           n > 0 /\ StopAfter(c.replies, n))
     /\ (c.pc = "loop" /\ n > 0 => ~StopAfter(c.replies, n))
     /\ (c.remote.kind = "paged" => c.beyond = 0)
     /\ (c.remote.kind = "paged" =>
           /\ \A i \in 1..Len(c.requests) :
                c.requests[i] = Len(Received(c.replies, i - 1))
           /\ (c.pc = "returned" =>
                 c.err = "nil" /\ c.allComponents = Range(1, c.remote.n)))

\* C30: GetComponents stops as soon as the count reaches the advertised total or
\* a page is empty, pages through a well-behaved device's list completely, and
\* against any device whose calls return it terminates: every call returns.
PaginationTerminates ==
  []PaginationComplete /\ <>(components.pc = "returned")

\* ------------------------------------------------ registry: calls in sequence

\* Device ids a caller may pass: those of the registry and one more.
DeviceIDs == 1..(NumDevices + 1)

\* Devices a caller may add.
NewDevices ==
  {Device(id, name, NewFolderName(name), 0) : id \in DeviceIDs, name \in {"kitchen", "hall"}}

\* m.AddDevice(device)
ManifestAddDevice ==
  /\ \E device \in NewDevices :
       /\ manifest' = AddDevice(manifest, device)
       /\ lastCall' = [op |-> "AddDevice", id |-> device.DeviceID, before |-> manifest]
  /\ UNCHANGED <<dirty, opState, retErr, retResults, manifestFile, pc, dev, idx, snap,
                 results, groupErr, ctxCancelled, extCancel, dirs, wrote, remoteCalls,
                 allOk, deviceFilter, devicesToPush, values, allDevices,
                 templateContext>>
  /\ UNCHANGED <<devVars, scriptCode, components, componentConfig>>

\* m.RemoveDevice(deviceID)
ManifestRemoveDevice ==
  /\ \E id \in DeviceIDs :
       /\ manifest' = RemoveDevice(manifest, id)
       /\ lastCall' = [op |-> "RemoveDevice", id |-> id, before |-> manifest]
  /\ UNCHANGED <<dirty, opState, retErr, retResults, manifestFile, pc, dev, idx, snap,
                 results, groupErr, ctxCancelled, extCancel, dirs, wrote, remoteCalls,
                 allOk, deviceFilter, devicesToPush, values, allDevices,
                 templateContext>>
  /\ UNCHANGED <<devVars, scriptCode, components, componentConfig>>

\* m.UpdateLastSync(deviceID, time.Now())
ManifestUpdateLastSync ==
  /\ \E id \in DeviceIDs :
       /\ manifest' = UpdateLastSync(manifest, id, Now)
       /\ lastCall' = [op |-> "UpdateLastSync", id |-> id, before |-> manifest]
  /\ UNCHANGED <<dirty, opState, retErr, retResults, manifestFile, pc, dev, idx, snap,
                 results, groupErr, ctxCancelled, extCancel, dirs, wrote, remoteCalls,
                 allOk, deviceFilter, devicesToPush, values, allDevices,
                 templateContext>>
  /\ UNCHANGED <<devVars, scriptCode, components, componentConfig>>

ManifestNext == ManifestAddDevice \/ ManifestRemoveDevice \/ ManifestUpdateLastSync

\* Calls of the registry's methods one after the other, from the registry every
\* run starts from; every list of pairwise distinct ids is reached by removing
\* and adding.
SpecManifest == ClientInit /\ [][ManifestNext]_vars

\* ------------------------------------------------- properties: registry ids

\* Positions of the id in the list.
Positions(m, id) == {i \in 1..Len(m) : m[i].DeviceID = id}

\* C33: registry device ids stay unique.  After any sequence of AddDevice,
\* RemoveDevice and UpdateLastSync no two entries share a device id; AddDevice of
\* an id the list holds leaves the length and every other entry as they were and
\* puts the device at the position of that id; AddDevice of a new id leaves the
\* entries as they were and adds the device as one entry at the end.
RegistryIdsUnique ==
  LET old == lastCall.before
      at == Positions(old, lastCall.id)
  IN /\ \A i, j \in 1..Len(manifest) :
          manifest[i].DeviceID = manifest[j].DeviceID => i = j
     /\ (lastCall.op = "AddDevice" /\ at # {} =>
           /\ Len(manifest) = Len(old)
           /\ Positions(manifest, lastCall.id) = at
           /\ \A i \in 1..Len(old) : i \notin at => manifest[i] = old[i])
     /\ (lastCall.op = "AddDevice" /\ at = {} =>
           /\ Len(manifest) = Len(old) + 1
           /\ SubSeq(manifest, 1, Len(old)) = old
           /\ manifest[Len(manifest)].DeviceID = lastCall.id)

\* C33 witness: a device was added again, in the middle of a list of three,
\* under another name.
RegistryIdsUniqueWitness ==
  /\ lastCall.op = "AddDevice"
  /\ Len(lastCall.before) = 3
  /\ Len(manifest) = 3
  /\ lastCall.before[2].DeviceID = lastCall.id
  /\ manifest[2].Name # lastCall.before[2].Name

\* ------------------------------------------- properties: registry updates

\* The tasks that renamed their device and saved the registry.
Renamed == {d \in Devices : RegistryFile \in wrote[d]}

\* The registry m holds the name and the folder the task of d gave its device.
HoldsRename(m, d) ==
  \E i \in 1..Len(m) :
    /\ m[i].DeviceID = dev[d].DeviceID
    /\ m[i].Name = dev[d].Name
    /\ m[i].Folder = dev[d].Folder

\* C32: no registry update is lost under parallel pull.  After a run in which
\* two or more devices were renamed and every Save succeeded, the in-memory
\* registry and the registry file both hold the new name and folder of every
\* renamed device, however the device tasks interleaved.
NoRegistryUpdateLost ==
  (/\ opState = "returned"
   /\ retResults
   /\ Cardinality(Renamed) >= 2
   /\ \A i \in 1..Len(results) : results[i].Error # "failed to update manifest")
    => \A d \in Renamed : HoldsRename(manifest, d) /\ HoldsRename(manifestFile, d)

\* ---------------------------------------------------- properties: last sync

\* C34: last_sync is updated only by a successful pull of that same device.  A
\* step changes the LastSync of a registry entry only if it is the step in which
\* the pull task of that entry's device returns with Success = true: a pull that
\* fails leaves it, a pull of another device leaves it, and no step of a push,
\* dry run or not, changes any LastSync.
LastSyncOnlyBySuccessfulPull ==
  [][\A i \in 1..Len(manifest) :
       (i > Len(manifest') \/ manifest'[i].LastSync # manifest[i].LastSync) =>
         LET d == manifest[i].DeviceID
         IN /\ i <= Len(manifest')
            /\ opState = "running"
            /\ pc[d] # "done" /\ pc'[d] = "done"
            /\ results'[d].DeviceID = d
            /\ results'[d].Success]_vars

\* C34 witness: after a pull the first device, pulled with success, has its
\* LastSync set and the second, whose pull failed, has not.
LastSyncOnlyBySuccessfulPullWitness ==
  /\ opState = "returned"
  /\ retResults
  /\ ~IsPush
  /\ results[1].Success /\ manifest[1].LastSync = Now
  /\ ~results[2].Success /\ manifest[2].LastSync = InitialManifest[2].LastSync

\* ------------------------------------------- properties: push, failed listings

\* C35: when listing the device's scripts, schedules or webhooks fails during a
\* push that is no dry run, the class is pushed as if the device had none: no
\* Update, Stop or Delete is issued for the class, every local record of the class
\* that could be read is sent by one Create, and the push goes on to list the
\* classes that follow and succeeds.
ListFailureMeansEmpty ==
  (ppc = "done" /\ ~dryRun) =>
    \A c \in Classes :
      CallFailed(Service(c) \o ".List") =>
        /\ \A i \in 1..Len(calls) :
             calls[i].class = c =>
               calls[i].op \notin {Service(c) \o ".Update", Service(c) \o ".Delete",
                                   "Script.Stop"}
        /\ \A m \in local[c] : Count(c, Service(c) \o ".Create", m.ID) <= 1
        /\ (~Failed(Label("ListLocal", c)) =>
              Cardinality({m \in local[c] : Count(c, Service(c) \o ".Create", m.ID) = 1})
                = Cardinality(local[c])
                    - (IF c = "script" THEN Occurrences(faults, "LoadScript") ELSE 0))
        /\ \A later \in Classes :
             ClassRank(later) > ClassRank(c) =>
               Count(later, Service(later) \o ".List", 0) = 1
        /\ pres.Success

\* C35 witness: the listing of the schedules failed; the folder's schedule,
\* which the device holds under the same id, was sent by a Create, and the
\* webhooks were listed after it.
ListFailureMeansEmptyWitness ==
  /\ ppc = "done"
  /\ ~dryRun
  /\ CallFailed("Schedule.List")
  /\ \E m \in local.schedule :
       /\ m.ID \in Ids(remote0.schedule)
       /\ Count("schedule", "Schedule.Create", m.ID) = 1
  /\ Count("webhook", "Webhook.List", 0) = 1

\* --------------------------------------------- properties: pull, local records

\* The positions of pullDeviceConfig.
PullSteps ==
  {"pull:config", "pull:kvs", "pull:components"} \cup {Label("pull", c) : c \in Classes}

\* A step of a pull keeps the config files, the ids of the folder's scripts,
\* schedules and webhooks, and as they are the records whose id the device does
\* not hold.
KeepsLocalRecords ==
  ppc \in PullSteps =>
    /\ local.config \subseteq local'.config
    /\ \A c \in Classes :
         \A r \in local[c] :
           /\ r.ID \in Ids(local'[c])
           /\ (r.ID \notin Ids(remote[c]) => r \in local'[c])

\* C36: pull never removes local records.  No step of a pull removes a config
\* file, and none removes or changes a script, schedule or webhook of the folder
\* whose id the device does not hold; the files of the other ids stay, with the
\* content the pull saved or the one they had.
PullKeepsLocalRecords == [][KeepsLocalRecords]_vars

\* C36 witness: a pull saved the device's scripts and the folder still holds,
\* as it was, a script whose id the device does not hold.
PullKeepsLocalRecordsWitness ==
  /\ ppc = "pulled"
  /\ pres.Success
  /\ hist = << >>
  /\ remote.script # {}
  /\ \A x \in remote.script : LocalRecord(x.ID, x.Enable) \in local.script
  /\ \E r \in local0.script : r.ID \notin Ids(remote.script) /\ r \in local.script

\* ------------------------------------------- properties: push, stopped scripts

\* The push issued the call for the script and it failed.
FailedFor(op, id) ==
  \E i \in 1..Len(calls) : calls[i].op = op /\ calls[i].id = id /\ ~calls[i].ok

\* The push stopped the script.
StoppedFor(id) ==
  \E i \in 1..Len(calls) : calls[i].op = "Script.Stop" /\ calls[i].id = id /\ calls[i].ok

\* C37: a script that ran on the device and was stopped for the upload is left
\* stopped when its PutCode or SetConfig then fails: the push issues no
\* Script.Start for it, whatever the enable flag of its metadata, and the script
\* is not running on the device.
StoppedScriptStaysStopped ==
  \A id \in RemoteIds :
    (/\ ppc # "off"
     /\ StoppedFor(id)
     /\ FailedFor("Script.PutCode", id) \/ FailedFor("Script.SetConfig", id))
      => /\ Count("script", "Script.Start", id) = 0
         /\ \A r \in remote.script : r.ID = id => ~r.Running

\* C37 witness: the script is enabled in the folder and ran on the device; the
\* push stopped it, its SetConfig failed and the push went on to its end.
StoppedScriptStaysStoppedWitness ==
  \E m \in local.script :
    /\ m.Enable
    /\ ppc = "done"
    /\ Before.script # {}
    /\ \A r \in Before.script : r.ID = m.ID /\ r.Running
    /\ StoppedFor(m.ID)
    /\ Count("script", "Script.PutCode", m.ID) = 1
    /\ FailedFor("Script.SetConfig", m.ID)

\* ------------------------------------------- component configs: their naming

\* Strings are sequences of one-character strings here, so that the conversions
\* between key, file name and method work on the characters.
Letters == {"e", "m"}

Digits == {"0", "1"}

\* Sequences over S of length at most n.
SeqsUpTo(S, n) == UNION {[1..k -> S] : k \in 0..n}

\* Component types of the Shelly.GetConfig reply: a letter, then letters or
\* digits ("em", "em1").
ComponentTypes ==
  {<<c>> \o r : c \in Letters, r \in SeqsUpTo(Letters \cup Digits, MaxTypeLen - 1)}

\* Component ids: decimal digits.
ComponentIds == SeqsUpTo(Digits, MaxIdLen) \ {<< >>}

\* Keys of the Shelly.GetConfig reply: "type" or "type:<id>".
ComponentKeys ==
  ComponentTypes \cup {t \o <<":">> \o i : t \in ComponentTypes, i \in ComponentIds}

\* strings.HasPrefix
HasPrefix(s, prefix) ==
  Len(s) >= Len(prefix) /\ SubSeq(s, 1, Len(prefix)) = prefix

\* A conversion that leaves the key as it is.
ReplaceAllNone(s, old, new) == s

\* strings.ReplaceAll for a one-character old and new.
ReplaceAll(s, old, new) == [i \in 1..Len(s) |-> IF s[i] = old THEN new ELSE s[i]]

\* strings.Contains for a one-character substring.
Contains(s, c) == \E i \in 1..Len(s) : s[i] = c

\* strings.SplitN(s, sep, 2), s containing sep: the text before the first sep and
\* the text after it.
SplitN(s, sep) ==
  LET at == CHOOSE i \in 1..Len(s) : s[i] = sep /\ \A j \in 1..(i - 1) : s[j] # sep
  IN <<SubSeq(s, 1, at - 1), SubSeq(s, at + 1, Len(s))>>

\* unicode.ToUpper
Upper(c) ==
  CASE c = "e" -> "E"
    [] c = "m" -> "M"
    [] OTHER -> c

\* strings.Title: the first letter of every word in upper case; a word starts at
\* the start of the string and after a character that is no letter, digit or
\* underscore.
Title(s) ==
  [i \in 1..Len(s) |->
     IF i = 1 \/ s[i - 1] \in {":", "-"} THEN Upper(s[i]) ELSE s[i]]

\* The value of a decimal digit.
DigitValue(c) == IF c = "1" THEN 1 ELSE 0

\* The decimal value of the digits that s starts with, acc being the value of the
\* digits read so far.
RECURSIVE ScanDigits(_, _)
ScanDigits(s, acc) ==
  IF s = << >> \/ s[1] \notin Digits THEN acc
  ELSE ScanDigits(Tail(s), 10 * acc + DigitValue(s[1]))

\* fmt.Sscanf(s, "%d", &componentID): without a leading digit nothing is stored
\* and componentID keeps its value (no key of the model carries a sign).
Sscanf(s, componentID) ==
  IF s = << >> \/ s[1] \notin Digits THEN componentID ELSE ScanDigits(s, 0)

\* Keys the pull skips: "cloud" and the "script:" keys.
SkippedKey(componentKey) ==
  \/ componentKey = <<"c", "l", "o", "u", "d">>
  \/ HasPrefix(componentKey, <<"s", "c", "r", "i", "p", "t", ":">>)

\* Files the push skips: "cloud" and the "script-" files.
SkippedFile(componentFile) ==
  \/ componentFile = <<"c", "l", "o", "u", "d">>
  \/ HasPrefix(componentFile, <<"s", "c", "r", "i", "p", "t", "-">>)

\* pullDeviceConfig, one iteration of the loop over the config map: the key of
\* the device's reply becomes the name of the file the config is saved in.
PullComponent ==
  /\ componentConfig.pc = "idle"
  /\ \E componentKey \in ComponentKeys :
       /\ ~SkippedKey(componentKey)
       /\ componentConfig' =
            [componentConfig EXCEPT !.pc = "saved",
                                    !.componentKey = componentKey,
                                    !.filename = ReplaceAll(componentKey, ":", "-")]
  /\ UNCHANGED <<pullVars, devVars, scriptCode, components, lastCall>>

\* pushDeviceConfig, one iteration of the loop over the config files: the file
\* name is parsed into component name and id, and <Component>.SetConfig is called
\* with the id among the params if there is one.
PushComponent ==
  /\ componentConfig.pc = "saved"
  /\ ~SkippedFile(componentConfig.filename)
  /\ LET componentFile == componentConfig.filename
         hasId == Contains(componentFile, "-")
         parts == SplitN(componentFile, "-")
         componentName == IF hasId THEN Title(parts[1]) ELSE Title(componentFile)
         componentID == IF hasId THEN Sscanf(parts[2], -1) ELSE -1
         params == IF componentID >= 0
                     THEN [id |-> componentID, config |-> "config"]
                     ELSE [config |-> "config"]
     IN componentConfig' =
          [componentConfig EXCEPT !.pc = "pushed",
                                  !.method = Append(componentName, ".SetConfig"),
                                  !.params = params]
  /\ UNCHANGED <<pullVars, devVars, scriptCode, components, lastCall>>

ComponentConfigNext == PullComponent \/ PushComponent

\* One component config: pulled from the device, then pushed from its file.
SpecComponentConfig == ClientInit /\ [][ComponentConfigNext]_vars

\* ------------------------------------------ properties: component naming

\* The type with its first letter in upper case.
Capitalized(type) == <<Upper(type[1])>> \o Tail(type)

\* The number the digits denote.
RECURSIVE Number(_)
Number(digits) ==
  IF digits = << >> THEN 0
  ELSE 10 * Number(SubSeq(digits, 1, Len(digits) - 1)) + DigitValue(digits[Len(digits)])

\* C40: a component pulled under the key "type:<id>" is stored as the file
\* "type-<id>" and pushed as <Type>.SetConfig with that numeric id among the
\* params; a component pulled under the bare key "type" is stored as "type" and
\* pushed as <Type>.SetConfig with no id among the params.
ComponentNamingRoundTrip ==
  componentConfig.pc = "pushed" =>
    LET c == componentConfig
    IN /\ \A type \in ComponentTypes, id \in ComponentIds :
            c.componentKey = type \o <<":">> \o id =>
              /\ c.filename = type \o <<"-">> \o id
              /\ c.method = Capitalized(type) \o <<".SetConfig">>
              /\ DOMAIN c.params = {"id", "config"}
              /\ c.params.id = Number(id)
       /\ c.componentKey \in ComponentTypes =>
            /\ c.filename = c.componentKey
            /\ c.method = Capitalized(c.componentKey) \o <<".SetConfig">>
            /\ DOMAIN c.params = {"config"}

\* C40 witness: the component "em1:10" was stored as "em1-10" and pushed as
\* Em1.SetConfig with id 10.
ComponentNamingRoundTripWitness ==
  /\ componentConfig.pc = "pushed"
  /\ componentConfig.componentKey = <<"e", "m", "1", ":", "1", "0">>
  /\ componentConfig.filename = <<"e", "m", "1", "-", "1", "0">>
  /\ componentConfig.method = <<"E", "m", "1", ".SetConfig">>
  /\ componentConfig.params.id = 10

====
